---- MODULE Spec2Model ----
(***************************************************************************)
(* A model of jferard/minimalpdfparser: the one-byte pushback wrapper, the *)
(* tokenizer's states, the cross-reference merge, on-demand resolution of  *)
(* indirect objects, the stream window and the text-extraction             *)
(* interpreter.  Each part has its own specification over the shared       *)
(* variables; the variables of the other parts keep their initial value.   *)
(***************************************************************************)
EXTENDS Integers, Sequences, FiniteSets, TLC

VARIABLES
    \* --- StreamWrapper / BinaryStreamWrapper (tokenizer.py)
    input,          \* the bytes the underlying stream's read(1) has returned so far
    eof,            \* the underlying stream has answered b"" (StopIteration)
    sw_prev,        \* StreamWrapper._prev
    sw_unget,       \* StreamWrapper._unget
    hist,           \* history of the calls made on the wrapper (ghost)
    \* --- PDFTokenizer (tokenizer.py)
    state,          \* PDFTokenizer._state: the State object and its fields
    tokens,         \* the tokens yielded so far
    err,            \* the exception that ended the iteration, or "none"
    \* --- PDFParser (parser.py)
    pos,            \* PDFParser._stream.tell(): the position in the byte source
    \* --- PDFParser.stream_window (parser.py)
    stream_obj,     \* the StreamObject read: its start and length
    win_pc,         \* where the generator _stream_window stands
    win_i,          \* the loop variable i of _stream_window
    chunks,         \* the chunks yielded so far, each the source positions read
    \* --- PDFParser.parse_document (parser.py)
    xref_file,      \* the xref sections of the file, by offset
    startxref,      \* the result of _find_start_xref
    xref_table,     \* the local xref_table, then PDFDocument.xref_table
    trailer_dict,   \* the local trailer_dict: its /Prev entry
    xref_pc,        \* where parse_document stands
    \* --- PDFDocument (parser.py)
    objects,        \* the indirect objects of the file, by object number
    obj_by_num,     \* PDFDocument._obj_by_num
    offsets,        \* PDFDocument._offsets
    last,           \* the last call of deref_object and what it did (ghost)
    first,          \* what the first returning call for each number returned (ghost)
    crashed,        \* an exception has left deref_object
    \* --- TextExtractor (tool.py)
    text_state,     \* TextExtractor.text_state: the TextState object
    font_by_ref,    \* PDFDocument._font_by_ref
    font,           \* the local font of _execute_page
    elements,       \* the TextElements yielded so far
    page,           \* the page being executed: its number and /Resources fonts
    ops,            \* the operations executed so far (ghost)
    \* --- ObjectParser.parse (parser.py)
    stack,          \* the local stack: one list per open dictionary or array
    parsed,         \* the tokens that next(self._it) has returned (ghost)
    returned,       \* the object that parse returned, or NoObject
    parse_exc,      \* the exception that left parse, or "none"
    \* --- PDFDocument.get_pages (parser.py)
    page_tree,      \* the page tree of the file: /Kids and /Contents by node
    kid_stack,      \* the local stack of get_pages
    yielded,        \* the nodes yielded so far
    pages_pc,       \* where the generator get_pages stands
    \* --- ContentParser.parse_content (content_parser.py)
    queue,          \* the local stack of parse_content: TokenQueue._arr
    operations,     \* the operations yielded so far
    content_exc,    \* the exception that left parse_content, or "none"
    \* --- ContentParser.parse_to_unicode (content_parser.py)
    cmap_tokens,    \* the tokens of the ToUnicode stream
    cmap_i,         \* the tokens that the loop has read
    cmap_stack,     \* the local stack
    fchar_count,    \* the local fchar_count
    cmap_encoding,  \* the local encoding
    cmap_pc,        \* where parse_to_unicode stands, or the exception that left it
    \* --- Encrypter, ARC4, ARC4_iterator (security.py)
    encryption_key, \* Encrypter.encryption_key: the file key
    obj_id,         \* the object number and generation number of the data
    data,           \* the byte buffer
    encrypted,      \* the result of encrypt_data on data, or None
    decrypted,      \* the result of encrypt_data on that result, or None
    ec,             \* the ARC4_iterator of stream_window
    ec_fed,         \* the lengths of the chunks fed to ec
    ec_out,         \* the outputs of ec.chunk, concatenated
    \* --- TextProcessor.process_texts (tool.py)
    texts,          \* the elements that iter_texts yields
    text_i,         \* the elements that the loop has read
    cur_txt,        \* the local cur_txt, or None
    txts,           \* the local txts
    merged,         \* the lists passed to merge_texts so far
    process_pc,     \* where process_texts stands
    \* --- parse_document, the while loop (ghost)
    xref_turns,     \* the parity of the turns of the while loop taken so far (ghost)
    \* --- reverse_reader, PDFParser._find_start_xref (parser.py)
    file_bytes,     \* the bytes of the file
    chunk_size,     \* the size of the backward chunks
    tell,           \* stream.tell()
    remainders,     \* the local remainders
    lines_out,      \* the lines yielded so far
    rev_pc,         \* where the generator reverse_reader stands
    found,          \* what _find_start_xref returned or raised
    \* --- PDFDocument.read_indirect_object on the bytes of a file (parser.py)
    io_bytes,       \* the bytes of the file
    io_tell,        \* the number of bytes read, stream.tell()
    io_obj,         \* the object read by read_object
    io_word,        \* the local endobj_word
    io_pc,          \* where read_indirect_object stands
    io_ret          \* what read_indirect_object returns

wrapVars == <<input, eof, sw_prev, sw_unget, hist>>
tokVars == <<state, tokens, err>>
winVars == <<stream_obj, win_pc, win_i, chunks>>
xrefVars == <<xref_file, startxref, xref_table, trailer_dict, xref_pc>>
derefVars == <<objects, obj_by_num, offsets, last, first, crashed>>
textVars == <<text_state, font_by_ref, font, elements, page, ops>>
parseVars == <<stack, parsed, returned, parse_exc>>
pagesVars == <<page_tree, kid_stack, yielded, pages_pc>>
contentVars == <<queue, operations, content_exc>>
cmapVars ==
    <<cmap_tokens, cmap_i, cmap_stack, fchar_count, cmap_encoding, cmap_pc>>
rc4Vars == <<encryption_key, obj_id, data, encrypted, decrypted, ec, ec_fed, ec_out>>
processVars == <<texts, text_i, cur_txt, txts, merged, process_pc>>
loopVars == <<xref_turns>>
revVars == <<file_bytes, chunk_size, tell, remainders, lines_out, rev_pc, found>>
indVars == <<io_bytes, io_tell, io_obj, io_word, io_pc, io_ret>>
vars ==
    <<wrapVars, tokVars, pos, winVars, xrefVars, derefVars, textVars, parseVars,
      pagesVars,
      contentVars,
      cmapVars,
      rc4Vars,
      processVars,
      loopVars,
      revVars,
      indVars>>

(***************************************************************************)
(* Bytes (tokenizer.py, lines 75-103)                                      *)
(***************************************************************************)
BACKSPACE == 8
FORM_FEED == 12
LINE_FEED == 10
CARRIAGE_RETURN == 13
HORIZONTAL_TAB == 9
DOT == 46
BACKSLASH == 92
PERCENT_SIGN == 37
LEFT_PARENTHESIS == 40
RIGHT_PARENTHESIS == 41
ZERO_DIGIT == 48
NINE_DIGIT == 57
SLASH == 47
LESS_THAN == 60
GREATER_THAN == 62
LEFT_SQUARE_BRACKET == 91
RIGHT_SQUARE_BRACKET == 93
A_UPPER == 65
Z_UPPER == 90
A_LOWER == 97
B_LOWER == 98
F_LOWER == 102
N_LOWER == 110
R_LOWER == 114
T_LOWER == 116
Z_LOWER == 122
STAR == 42

\* DELIMITERS = b"()<>[]{}/%"
DELIMITERS == {40, 41, 60, 62, 91, 93, 123, 125, 47, 37}
\* WHITESPACES = b"\x00\t\n\x0c\r "
WHITESPACES == {0, 9, 10, 12, 13, 32}

(***************************************************************************)
(* StreamWrapper: one byte of pushback over a byte source                  *)
(***************************************************************************)
\* StreamWrapper.__init__: _prev = -1
NoPrev == -1

\* the longest history of wrapper calls explored
MaxCalls == 8
\* the most bytes the underlying stream holds
MaxStream == 3
\* the byte values the underlying stream of the wrapper specification holds
WrapBytes == {F_LOWER, 111}

\* StreamWrapper.unget: the new value of _unget
M_Unget(prev, unget) ==
    TRUE

Unget(prev, unget) ==
    IF prev = NoPrev \/ unget THEN unget ELSE TRUE

\* StreamWrapper.__next__, given what _get would answer: g is a byte, or
\* NoPrev - 1 for StopIteration.  The result names the value returned (or
\* stop), the fields afterwards and whether _get was called.
StopIteration == NoPrev - 1

Next_(prev, unget, g) ==
    IF unget
    THEN [ret |-> prev, stop |-> FALSE, prev |-> prev, unget |-> FALSE, got |-> FALSE]
    ELSE IF g = StopIteration
         THEN [ret |-> NoPrev, stop |-> TRUE, prev |-> prev, unget |-> FALSE, got |-> TRUE]
         ELSE [ret |-> g, stop |-> FALSE, prev |-> g, unget |-> FALSE, got |-> TRUE]

\* BinaryStreamWrapper._get: the answers read(1) can give
Get(bytes) ==
    IF eof \/ Len(input) >= MaxStream THEN {StopIteration}
    ELSE bytes \cup {StopIteration}

(***************************************************************************)
(* Tokens and the tokenizer's State objects                                *)
(***************************************************************************)
\* the most bytes a tokenizer specification reads from its stream
MaxInput == 6

NoToken == [type |-> "None", bs |-> <<>>]
OpenDictToken == [type |-> "OpenDict", bs |-> <<>>]
CloseDictToken == [type |-> "CloseDict", bs |-> <<>>]
OpenArrayToken == [type |-> "OpenArray", bs |-> <<>>]
CloseArrayToken == [type |-> "CloseArray", bs |-> <<>>]
StringObject(bs) == [type |-> "String", bs |-> bs]
NameObject(bs) == [type |-> "Name", bs |-> bs]
NumberObject(bs) == [type |-> "Number", bs |-> bs]
WordToken(bs) == [type |-> "Word", bs |-> bs]

\* _bytes_to_string: struct.pack("{}B") accepts only values 0..255
Packable(cs) ==
    \A i \in 1..Len(cs) : cs[i] >= 0 /\ cs[i] <= 255

\* b"0123456789"
DecDigits == ZERO_DIGIT..NINE_DIGIT
\* b"0123456789ABCDEFabcdef"
HexDigits == DecDigits \cup (A_UPPER..70) \cup (A_LOWER..F_LOWER)

\* the State classes; ddd = <<>> stands for None
StartState ==
    [name |-> "Start", cs |-> <<>>, esc |-> FALSE, esc_cr |-> FALSE,
     lparen_count |-> 0, ddd |-> <<>>, dot |-> FALSE, cr |-> FALSE]
NameObjectState == [StartState EXCEPT !.name = "NameObject", !.cs = <<SLASH>>]
OpenDictOrHexStringState == [StartState EXCEPT !.name = "OpenDictOrHexString"]
CloseDictState == [StartState EXCEPT !.name = "CloseDict"]
StringState == [StartState EXCEPT !.name = "String"]
CommentState == [StartState EXCEPT !.name = "Comment"]
DigitState(c) == [StartState EXCEPT !.name = "Digit", !.cs = <<c>>, !.dot = (c = DOT)]
WordState(c) == [StartState EXCEPT !.name = "Word", !.cs = <<c>>]
HexStringState(c) == [StartState EXCEPT !.name = "HexString", !.cs = <<c>>]

\* NumberObject.value: float(bs) when bs contains ".", int(bs) otherwise;
\* both raise ValueError on bytes that are no literal (no digit, a sign that
\* is not first, two dots)
value(tok) ==
    LET bs == tok.bs
        body == IF bs # <<>> /\ bs[1] \in {43, 45} THEN Tail(bs) ELSE bs
        dots == {i \in 1..Len(body) : body[i] = DOT}
        digits == {i \in 1..Len(body) : body[i] \in DecDigits}
    IN IF \E i \in 1..Len(bs) : bs[i] = DOT
       THEN IF Cardinality(dots) = 1 /\ digits # {}
                 /\ dots \cup digits = 1..Len(body)
            THEN "float" ELSE "ValueError"
       ELSE IF digits # {} /\ digits = 1..Len(body)
            THEN "int" ELSE "ValueError"

\* what one call of State.handle does: the next state, the token returned,
\* whether tokenizer.unget() was called, the exception raised
Res(st, tok, ung, exc) == [state |-> st, token |-> tok, unget |-> ung, raise |-> exc]
Stay(st) == Res(st, NoToken, FALSE, "none")

\* a token built with struct.pack after the state was set
Pack(st, tok, ung) ==
    IF Packable(tok.bs) THEN Res(st, tok, ung, "none")
    ELSE Res(st, NoToken, ung, "struct.error")

StartHandle(st, c) ==
    IF c = SLASH THEN Stay(NameObjectState)
    ELSE IF c = LESS_THAN THEN Stay(OpenDictOrHexStringState)
    ELSE IF c = GREATER_THAN THEN Stay(CloseDictState)
    ELSE IF c = LEFT_SQUARE_BRACKET THEN Res(st, OpenArrayToken, FALSE, "none")
    ELSE IF c = RIGHT_SQUARE_BRACKET THEN Res(st, CloseArrayToken, FALSE, "none")
    ELSE IF c = LEFT_PARENTHESIS THEN Stay(StringState)
    ELSE IF c = PERCENT_SIGN THEN Stay(CommentState)
    ELSE IF c \in {43, 45, DOT} \cup DecDigits THEN Stay(DigitState(c))
    ELSE IF c \in {32, CARRIAGE_RETURN, LINE_FEED} THEN Stay(st)
    ELSE Stay(WordState(c))

\* a name state that consumes the byte that ends the name
M_NameObjectHandle(st, c) ==
    IF c \in DELIMITERS \/ c \in WHITESPACES
    THEN Res(StartState, NameObject(st.cs), FALSE, "none")
    ELSE Stay([st EXCEPT !.cs = Append(@, c)])

NameObjectHandle(st, c) ==
    IF c \in DELIMITERS \/ c \in WHITESPACES
    THEN IF Packable(st.cs) THEN Res(StartState, NameObject(st.cs), TRUE, "none")
         ELSE Res(st, NoToken, FALSE, "struct.error")
    ELSE Stay([st EXCEPT !.cs = Append(@, c)])

OpenDictOrHexStringHandle(st, c) ==
    IF c = LESS_THAN THEN Res(StartState, OpenDictToken, FALSE, "none")
    ELSE IF c \in HexDigits THEN Stay(HexStringState(c))
    ELSE IF c = GREATER_THAN THEN Res(StartState, StringObject(<<>>), FALSE, "none")
    ELSE Res(st, NoToken, FALSE, "TokenError")

\* a state that lets a byte other than ">" pass after ">"
M_CloseDictHandle(st, c) ==
    IF c = GREATER_THAN THEN Res(StartState, CloseDictToken, FALSE, "none")
    ELSE Stay(StartState)

CloseDictHandle(st, c) ==
    IF c = GREATER_THAN THEN Res(StartState, CloseDictToken, FALSE, "none")
    ELSE Res(st, NoToken, FALSE, "TokenError")

\* StringState._handle_esc
HandleEsc(st, c) ==
    LET s == [st EXCEPT !.esc = FALSE] IN
    IF c = B_LOWER THEN [s EXCEPT !.cs = Append(@, BACKSPACE)]
    ELSE IF c = F_LOWER THEN [s EXCEPT !.cs = Append(@, FORM_FEED)]
    ELSE IF c = N_LOWER THEN [s EXCEPT !.cs = Append(@, LINE_FEED)]
    ELSE IF c = R_LOWER THEN [s EXCEPT !.cs = Append(@, CARRIAGE_RETURN)]
    ELSE IF c = T_LOWER THEN [s EXCEPT !.cs = Append(@, HORIZONTAL_TAB)]
    ELSE IF c = LEFT_PARENTHESIS THEN [s EXCEPT !.cs = Append(@, LEFT_PARENTHESIS)]
    ELSE IF c = RIGHT_PARENTHESIS THEN [s EXCEPT !.cs = Append(@, RIGHT_PARENTHESIS)]
    ELSE IF c = BACKSLASH THEN [s EXCEPT !.cs = Append(@, BACKSLASH)]
    ELSE IF c = CARRIAGE_RETURN THEN [s EXCEPT !.esc_cr = TRUE]
    ELSE IF c = LINE_FEED THEN s
    ELSE IF ZERO_DIGIT <= c /\ c <= NINE_DIGIT THEN [s EXCEPT !.ddd = <<c - ZERO_DIGIT>>]
    ELSE [s EXCEPT !.cs = @ \o <<BACKSLASH, c>>]

\* StringState._handle_char: the state afterwards and the value returned
HandleChar(st, c) ==
    IF c = LEFT_PARENTHESIS
    THEN [st |-> [st EXCEPT !.lparen_count = @ + 1, !.cs = Append(@, c)], ret |-> FALSE]
    ELSE IF c = RIGHT_PARENTHESIS
    THEN IF st.lparen_count - 1 < 0
         THEN [st |-> [st EXCEPT !.lparen_count = @ - 1], ret |-> TRUE]
         ELSE [st |-> [st EXCEPT !.lparen_count = @ - 1, !.cs = Append(@, c)], ret |-> FALSE]
    ELSE IF c = BACKSLASH
    THEN [st |-> [st EXCEPT !.esc = TRUE], ret |-> FALSE]
    ELSE [st |-> [st EXCEPT !.cs = Append(@, c)], ret |-> FALSE]

\* StringState.handle, the branch taken while an octal escape is open
HandleDdd(st, c) ==
    IF Len(st.ddd) = 1
    THEN IF ZERO_DIGIT <= c /\ c <= NINE_DIGIT
         THEN Stay([st EXCEPT !.ddd = Append(@, c - ZERO_DIGIT)])
         ELSE Res([st EXCEPT !.cs = Append(@, st.ddd[1]), !.ddd = <<>>],
                  NoToken, TRUE, "none")
    ELSE IF Len(st.ddd) = 2
    THEN IF ZERO_DIGIT <= c /\ c <= NINE_DIGIT
         THEN Stay([st EXCEPT !.ddd = Append(@, c - ZERO_DIGIT)])
         ELSE Res([st EXCEPT !.cs = Append(@, st.ddd[1] * 8 + st.ddd[2]), !.ddd = <<>>],
                  NoToken, TRUE, "none")
    ELSE Res([st EXCEPT !.cs = Append(@, st.ddd[1] * 64 + st.ddd[2] * 8 + st.ddd[3]),
                        !.ddd = <<>>],
             NoToken, TRUE, "none")

\* the tail of StringState.handle: on ret the state is set to Start and the
\* string token is built from _cs
CloseOrStay(hc) ==
    IF hc.ret THEN Pack(StartState, StringObject(hc.st.cs), FALSE)
    ELSE Stay(hc.st)

StringHandle(st, c) ==
    IF st.ddd # <<>> THEN HandleDdd(st, c)
    ELSE IF st.esc THEN Stay(HandleEsc(st, c))
    ELSE IF st.esc_cr
    THEN IF c = LINE_FEED THEN Stay([st EXCEPT !.esc_cr = FALSE])
         ELSE CloseOrStay(HandleChar(st, c))
    ELSE CloseOrStay(HandleChar(st, c))

CommentHandle(st, c) ==
    IF c = CARRIAGE_RETURN THEN Stay([st EXCEPT !.cr = TRUE])
    ELSE IF c = LINE_FEED THEN Stay(StartState)
    ELSE IF st.cr THEN Res(StartState, NoToken, TRUE, "none")
    ELSE Stay(st)

DigitHandle(st, c) ==
    IF c = DOT
    THEN IF st.dot THEN Pack(DigitState(c), NumberObject(st.cs), FALSE)
         ELSE Stay([st EXCEPT !.dot = TRUE, !.cs = Append(@, c)])
    ELSE IF c \in DecDigits THEN Stay([st EXCEPT !.cs = Append(@, c)])
    ELSE Pack(StartState, NumberObject(st.cs), TRUE)

WordHandle(st, c) ==
    IF (A_LOWER <= c /\ c <= Z_LOWER) \/ (A_UPPER <= c /\ c <= Z_UPPER) \/ c = STAR
    THEN Stay([st EXCEPT !.cs = Append(@, c)])
    ELSE Pack(StartState, WordToken(st.cs), TRUE)

\* int(x, 16) of one hex digit
HexVal(c) ==
    IF c \in DecDigits THEN c - ZERO_DIGIT
    ELSE IF c >= A_LOWER THEN c - A_LOWER + 10
    ELSE c - A_UPPER + 10

\* a decoder that reads each pair least-significant nibble first
M_FromHex(hs) ==
    [i \in 1..(Len(hs) \div 2) |-> HexVal(hs[2 * i]) * 16 + HexVal(hs[2 * i - 1])]

\* bytes.fromhex of an even number of hex digits
RECURSIVE FromHex(_)
FromHex(hs) ==
    IF Len(hs) < 2 THEN <<>>
    ELSE <<HexVal(hs[1]) * 16 + HexVal(hs[2])>> \o FromHex(SubSeq(hs, 3, Len(hs)))

HexStringHandle(st, c) ==
    IF c \in HexDigits THEN Stay([st EXCEPT !.cs = Append(@, c)])
    ELSE IF c = GREATER_THAN
    THEN LET hex_string == IF Len(st.cs) % 2 = 1 THEN Append(st.cs, ZERO_DIGIT) ELSE st.cs
         IN Res(StartState, StringObject(FromHex(hex_string)), FALSE, "none")
    ELSE Res(st, NoToken, FALSE, "TokenError")

\* self._state.handle(self, c)
Handle(st, c) ==
    CASE st.name = "Start" -> StartHandle(st, c)
      [] st.name = "NameObject" -> NameObjectHandle(st, c)
      [] st.name = "OpenDictOrHexString" -> OpenDictOrHexStringHandle(st, c)
      [] st.name = "CloseDict" -> CloseDictHandle(st, c)
      [] st.name = "String" -> StringHandle(st, c)
      [] st.name = "Comment" -> CommentHandle(st, c)
      [] st.name = "Digit" -> DigitHandle(st, c)
      [] st.name = "Word" -> WordHandle(st, c)
      [] st.name = "HexString" -> HexStringHandle(st, c)

\* PDFTokenizer.__iter__, one turn of the loop in the state called name: the
\* wrapper delivers a byte (a new one from the bytes A, or the one pushed
\* back), the state handles it, a token returned is yielded
TokTurn(name, A) ==
    /\ state.name = name
    /\ err = "none"
    /\ ~eof
    /\ sw_unget \/ Len(input) < MaxInput
    /\ \E g \in (IF sw_unget THEN {sw_prev} ELSE A) :
         LET n == Next_(sw_prev, sw_unget, g)
             h == Handle(state, n.ret)
         IN /\ input' = IF n.got THEN Append(input, g) ELSE input
            /\ sw_prev' = n.prev
            /\ sw_unget' = IF h.unget THEN Unget(n.prev, n.unget) ELSE n.unget
            /\ state' = h.state
            /\ tokens' = IF h.token = NoToken THEN tokens ELSE Append(tokens, h.token)
            /\ err' = h.raise

\* a turn of the tokenizer on its own
TokStep(name, A) ==
    /\ TokTurn(name, A)
    /\ UNCHANGED <<eof, hist, pos, winVars, xrefVars, derefVars, textVars,
                   parseVars, pagesVars, contentVars, cmapVars, rc4Vars, processVars, loopVars, revVars, indVars>>

\* a mistaken end of the loop: the bytes of a pending word are yielded as a
\* token
M_TokEof ==
    /\ err = "none"
    /\ ~eof
    /\ ~sw_unget
    /\ eof' = TRUE
    /\ tokens' = IF state.name = "Word" THEN Append(tokens, WordToken(state.cs))
                 ELSE tokens
    /\ UNCHANGED <<input, sw_prev, sw_unget, hist, state, err, pos, winVars,
                   xrefVars, derefVars, textVars, parseVars, pagesVars,
                   contentVars, cmapVars, rc4Vars, processVars, loopVars, revVars, indVars>>

\* the wrapper raises StopIteration: the loop, and the token sequence, end
TokEof ==
    /\ err = "none"
    /\ ~eof
    /\ ~sw_unget
    /\ eof' = TRUE
    /\ UNCHANGED <<input, sw_prev, sw_unget, hist, tokVars, parseVars,
                   pagesVars, contentVars, cmapVars, rc4Vars, processVars, loopVars, revVars, indVars>>
    /\ UNCHANGED <<pos, winVars, xrefVars, derefVars, textVars, parseVars,
                   pagesVars, contentVars, cmapVars, rc4Vars, processVars, loopVars, revVars, indVars>>

(***************************************************************************)
(* The tokenizer on literal strings                                        *)
(***************************************************************************)
\* the bytes of the literal-string specification: ( ) \ 1 4 z CR LF
StrBytes ==
    {LEFT_PARENTHESIS, RIGHT_PARENTHESIS, BACKSLASH, 49, 52, Z_LOWER,
     CARRIAGE_RETURN, LINE_FEED}

StrStart == TokStep("Start", StrBytes)
StrString == TokStep("String", StrBytes)
StrDigit == TokStep("Digit", StrBytes)
StrWord == TokStep("Word", StrBytes)

NextStr == StrStart \/ StrString \/ StrDigit \/ StrWord \/ TokEof

\* the bytes of the octal escapes: ( ) \ 1 4 9
OctBytes ==
    {LEFT_PARENTHESIS, RIGHT_PARENTHESIS, BACKSLASH, 49, 52, NINE_DIGIT}

OctStart == TokStep("Start", OctBytes)
OctString == TokStep("String", OctBytes)
OctDigit == TokStep("Digit", OctBytes)
OctWord == TokStep("Word", OctBytes)

NextOct == OctStart \/ OctString \/ OctDigit \/ OctWord \/ TokEof

(***************************************************************************)
(* The tokenizer on names                                                  *)
(***************************************************************************)
\* the bytes of the name specification: / f # 2 0 SP HT
NameBytes == {SLASH, F_LOWER, 35, 50, ZERO_DIGIT, 32, HORIZONTAL_TAB}

NextName ==
    \/ TokStep("Start", NameBytes)
    \/ TokStep("NameObject", NameBytes)
    \/ TokStep("Digit", NameBytes)
    \/ TokStep("Word", NameBytes)
    \/ TokEof

(***************************************************************************)
(* The tokenizer on numbers                                                *)
(***************************************************************************)
\* the bytes of the number specification: + - . 4 SP f
NumBytes == {43, 45, DOT, 52, 32, F_LOWER}

NextNum ==
    \/ TokStep("Start", NumBytes)
    \/ TokStep("Digit", NumBytes)
    \/ TokStep("Word", NumBytes)
    \/ TokEof

(***************************************************************************)
(* The tokenizer on whitespace                                             *)
(***************************************************************************)
\* the bytes of the whitespace specification: NUL HT LF FF CR SP f
WsBytes == WHITESPACES \cup {F_LOWER}

NextWs ==
    \/ TokStep("Start", WsBytes)
    \/ TokStep("Word", WsBytes)
    \/ TokEof

(***************************************************************************)
(* The tokenizer in all its states                                         *)
(***************************************************************************)
\* the bytes of the specification of all states: < > 4 z / ( % LF
AllBytes ==
    {LESS_THAN, GREATER_THAN, 52, Z_LOWER, SLASH, LEFT_PARENTHESIS,
     PERCENT_SIGN, LINE_FEED}

StateNames ==
    {"Start", "NameObject", "OpenDictOrHexString", "CloseDict", "String",
     "Comment", "Digit", "Word", "HexString"}

NextAll ==
    \/ \E name \in StateNames : TokStep(name, AllBytes)
    \/ TokEof

(***************************************************************************)
(* The tokenizer on hex strings and dictionary brackets                    *)
(***************************************************************************)
\* the bytes of the hex-string specification: < > 4 A f z
HexBytes == {LESS_THAN, GREATER_THAN, 52, A_UPPER, F_LOWER, Z_LOWER}

HexStart == TokStep("Start", HexBytes)
HexOpenDictOrHexString == TokStep("OpenDictOrHexString", HexBytes)
HexCloseDict == TokStep("CloseDict", HexBytes)
HexHexString == TokStep("HexString", HexBytes)
HexDigit == TokStep("Digit", HexBytes)
HexWord == TokStep("Word", HexBytes)

NextHex ==
    \/ HexStart
    \/ HexOpenDictOrHexString
    \/ HexCloseDict
    \/ HexHexString
    \/ HexDigit
    \/ HexWord
    \/ TokEof

\* a client calls next(wrapper)
WrapNext ==
    /\ Len(hist) < MaxCalls
    /\ \E g \in Get(WrapBytes) :
         LET r == Next_(sw_prev, sw_unget, g) IN
         /\ sw_prev' = r.prev
         /\ sw_unget' = r.unget
         /\ input' = IF r.got /\ ~r.stop THEN Append(input, g) ELSE input
         /\ eof' = IF r.got /\ r.stop THEN TRUE ELSE eof
         /\ hist' = Append(hist, [op |-> "next", ret |-> r.ret, stop |-> r.stop])
    /\ UNCHANGED <<tokVars, pos, winVars, xrefVars, derefVars, textVars,
                   parseVars, pagesVars, contentVars, cmapVars, rc4Vars, processVars, loopVars, revVars, indVars>>

\* a client calls wrapper.unget()
WrapUnget ==
    /\ Len(hist) < MaxCalls
    /\ sw_unget' = Unget(sw_prev, sw_unget)
    /\ hist' = Append(hist, [op |-> "unget", ret |-> NoPrev, stop |-> FALSE])
    /\ UNCHANGED <<input, eof, sw_prev, tokVars, parseVars, pagesVars, contentVars, cmapVars, rc4Vars, processVars, loopVars, revVars, indVars>>
    /\ UNCHANGED <<pos, winVars, xrefVars, derefVars, textVars, parseVars,
                   pagesVars, contentVars, cmapVars, rc4Vars, processVars, loopVars, revVars, indVars>>

NextWrap == WrapNext \/ WrapUnget

(***************************************************************************)
(* The stream window: PDFParser.stream_window / _stream_window             *)
(***************************************************************************)
\* parser.py, line 40
BUF_SIZE == 40

\* the longest /Length of the stream objects tried
MaxLength == 85

\* the positions at which the payload of the stream object may start
StreamStarts == {0, 7}

\* _stream.read(n) at position p: the source bytes read, each named by its
\* position in the source (the payload lies inside the file: _read_stream
\* has found `endstream` behind it)
Read(p, n) == [k \in 1..n |-> p + k - 1]

\* no stream object is being read
NoStreamObject == [start |-> 0, length |-> 0]

\* stream_window with no encrypter: seek to the start of the payload, then
\* delegate to _stream_window, whose for loop starts from i = 0
WinSeek ==
    /\ win_pc = "start"
    /\ pos' = stream_obj.start
    /\ win_i' = 0
    /\ win_pc' = "loop"
    /\ UNCHANGED <<stream_obj, chunks>>
    /\ UNCHANGED <<wrapVars, tokVars, xrefVars, derefVars, textVars,
                   parseVars, pagesVars, contentVars, cmapVars, rc4Vars, processVars, loopVars, revVars, indVars>>

\* _stream_window, one turn of for i in range(0, length - BUF_SIZE, BUF_SIZE)
WinChunk ==
    /\ win_pc = "loop"
    /\ win_i < stream_obj.length - BUF_SIZE
    /\ chunks' = Append(chunks, Read(pos, BUF_SIZE))
    /\ pos' = pos + BUF_SIZE
    /\ win_i' = win_i + BUF_SIZE
    /\ UNCHANGED <<stream_obj, win_pc>>
    /\ UNCHANGED <<wrapVars, tokVars, xrefVars, derefVars, textVars,
                   parseVars, pagesVars, contentVars, cmapVars, rc4Vars, processVars, loopVars, revVars, indVars>>

\* _stream_window, after the loop: yield read(length % BUF_SIZE)
WinLast ==
    /\ win_pc = "loop"
    /\ ~(win_i < stream_obj.length - BUF_SIZE)
    /\ chunks' = Append(chunks, Read(pos, stream_obj.length % BUF_SIZE))
    /\ pos' = pos + (stream_obj.length % BUF_SIZE)
    /\ win_pc' = "done"
    /\ UNCHANGED <<stream_obj, win_i>>
    /\ UNCHANGED <<wrapVars, tokVars, xrefVars, derefVars, textVars,
                   parseVars, pagesVars, contentVars, cmapVars, rc4Vars, processVars, loopVars, revVars, indVars>>

NextWin == WinSeek \/ WinChunk \/ WinLast

(***************************************************************************)
(* The cross-reference table: PDFParser.parse_document / get_xref_table    *)
(***************************************************************************)
\* the highest object number of the file
MaxObjNum == 1

\* the number of xref sections of the file (the original and its updates)
NSections == 2

ObjNums == 0..MaxObjNum

\* an xref section is named by its offset in the file
SectionOffsets == 1..NSections

\* tokenizer.py, lines 108-111
XrefEntry(byte_offset, gen_number, kw) ==
    [byte_offset |-> byte_offset, gen_number |-> gen_number, kw |-> kw]

\* the entry line k of subsection j of the section at s: every line of the
\* file gives another byte offset, so that an entry tells where it was read
EntryAt(s, j, k) == XrefEntry(100 * s + 10 * j + k, 0, "n")

\* a subsection header `off n` within the object numbers of the file
Subsections ==
    {sub \in [off : ObjNums, n : 1..(MaxObjNum + 1)] :
        sub.off + sub.n - 1 <= MaxObjNum}

\* the subsections of a section: one, or two ranges in increasing order
SubsectionLists ==
    {<<a>> : a \in Subsections}
    \cup {p \in Subsections \X Subsections : p[2].off >= p[1].off + p[1].n}

\* a section with its trailer: /Prev is absent (<<>>) or the offset of the
\* previous section
Sections ==
    [subs : SubsectionLists,
     prev : {<<>>} \cup {<<s>> : s \in SectionOffsets}]

EmptyTable == [n \in {} |-> n]

\* get_xref_table, the while loop from subsection j on: every line of a
\* subsection sets entry_by_ref_num[i]
RECURSIVE ReadSubsections(_, _, _)
ReadSubsections(s, j, entry_by_ref_num) ==
    IF j > Len(xref_file[s].subs) THEN entry_by_ref_num
    ELSE LET sub == xref_file[s].subs[j]
             lines == [i \in sub.off..(sub.off + sub.n - 1) |->
                          EntryAt(s, j, i - sub.off + 1)]
         IN ReadSubsections(s, j + 1, lines @@ entry_by_ref_num)

get_xref_table(start_xref) == ReadSubsections(start_xref, 1, EmptyTable)

\* the merge that overwrites the entries already there
M_FillMissing(table, other) == other @@ table

\* parse_document, lines 312-315: fill the missing elements
FillMissing(table, other) ==
    [k \in DOMAIN table \cup DOMAIN other |->
        IF k \in DOMAIN table THEN table[k] ELSE other[k]]

\* read_dict after get_xref_table: the trailer dictionary of the section
read_dict(s) == [Prev |-> xref_file[s].prev]

\* no trailer has been read
NoTrailer == [Prev |-> <<>>]

\* parse_document, lines 289-292: the section startxref points to
XrefFirst ==
    /\ xref_pc = "start"
    /\ xref_table' = get_xref_table(startxref)
    /\ trailer_dict' = read_dict(startxref)
    /\ xref_pc' = "loop"
    /\ UNCHANGED <<xref_file, startxref>>
    /\ UNCHANGED <<wrapVars, tokVars, pos, winVars, derefVars, textVars,
                   parseVars, pagesVars, contentVars, cmapVars, rc4Vars, processVars, loopVars, revVars, indVars>>

\* parse_document, one turn of the while loop: the trailer has a /Prev
XrefPrev ==
    /\ xref_pc = "loop"
    /\ trailer_dict.Prev # <<>>
    /\ LET other_start_xref == trailer_dict.Prev[1]
       IN /\ xref_table' =
                FillMissing(xref_table, get_xref_table(other_start_xref))
          /\ trailer_dict' = read_dict(other_start_xref)
    /\ xref_turns' = 1 - xref_turns
    /\ UNCHANGED <<xref_file, startxref, xref_pc>>
    /\ UNCHANGED <<wrapVars, tokVars, pos, winVars, derefVars, textVars,
                   parseVars, pagesVars, contentVars, cmapVars, rc4Vars,
                   processVars, revVars, indVars>>

\* parse_document, the KeyError on /Prev: break, and return the document
XrefDone ==
    /\ xref_pc = "loop"
    /\ trailer_dict.Prev = <<>>
    /\ xref_pc' = "done"
    /\ UNCHANGED <<xref_file, startxref, xref_table, trailer_dict>>
    /\ UNCHANGED <<wrapVars, tokVars, pos, winVars, derefVars, textVars,
                   parseVars, pagesVars, contentVars, cmapVars, rc4Vars, processVars, loopVars, revVars, indVars>>

NextXref == XrefFirst \/ XrefPrev \/ XrefDone

(***************************************************************************)
(* Indirect objects: PDFDocument.deref_object and what it calls            *)
(***************************************************************************)
\* the object numbers 1..NObjects are used by the file
NObjects == 2

\* the number of calls of deref_object a client makes
MaxDerefs == 3

ObjNumbers == 1..NObjects

\* the layout of the file: `n 0 obj` is at Off(n); the object and the line
\* of its `stream` or `endobj` keyword end at AfterKeyword(n), where the
\* payload of a stream starts; the payload has PayloadLength bytes and is
\* followed by `endstream` and `endobj`
Off(n) == 10 * n

AfterKeyword(n) == Off(n) + 5

PayloadLength == 2

ObjNumAt(byte_offset) == CHOOSE n \in ObjNumbers : Off(n) = byte_offset

\* the positions a client of the document may be at when it dereferences
ClientPositions == {0, 3}

\* what the file holds for an object number: nothing (and no xref entry), a
\* number, a dictionary, or a stream whose dictionary has no /Length, a
\* direct /Length, or an indirect /Length `ref 0 R`
ObjectKinds ==
    {[kind |-> k, Length |-> "absent", ref |-> 0] :
        k \in {"missing", "number", "dict", "stream"}}
    \cup {[kind |-> "stream", Length |-> "direct", ref |-> 0]}
    \cup {[kind |-> "stream", Length |-> "ref", ref |-> m] : m \in ObjNumbers}

\* base.py, lines 107-110
NullObject == [type |-> "Null", value |-> 0, Length |-> "absent", ref |-> 0]

\* base.py, lines 113-125: the numbers of the file are the payload length
NumberValue(v) == [type |-> "Number", value |-> v, Length |-> "absent", ref |-> 0]

\* PDFParser.read_object at an object of the file: a NumberObject or a
\* DictObject with its /Length entry
read_object(o) ==
    IF o.kind = "number" THEN NumberValue(PayloadLength)
    ELSE [type |-> "Dict", value |-> 0, Length |-> o.Length, ref |-> o.ref]

\* base.py, lines 146-170
IndirectObject(obj_num, object) ==
    [class |-> "IndirectObject", obj_num |-> obj_num, object |-> object,
     start |-> 0, length |-> 0]

StreamObject(obj_num, object, start, length) ==
    [class |-> "StreamObject", obj_num |-> obj_num, object |-> object,
     start |-> start, length |-> length]

\* how a call ends: it returns val, or raises exc; doc is the state of the
\* document and of the byte source it leaves
Return(doc, val) == [doc |-> doc, exc |-> "none", val |-> val]

Raise(doc, exc) == [doc |-> doc, exc |-> exc, val |-> NullObject]

\* deref_object without its except clause
M_CatchKeyError(r) ==
    IF r.exc = "none" THEN Return(r.doc, r.val.object) ELSE r

\* deref_object, lines 109-112: .object of what _get_indirect_object
\* returns, null on KeyError, any other exception goes on
CatchKeyError(r) ==
    IF r.exc = "none" THEN Return(r.doc, r.val.object)
    ELSE IF r.exc = "KeyError" THEN Return(r.doc, NullObject)
    ELSE r

\* read_indirect_object, lines 186-188
PopAndSeek(doc, ret) ==
    Return([doc EXCEPT !.pos = doc.offsets[Len(doc.offsets)],
                       !.offsets = SubSeq(@, 1, Len(@) - 1)], ret)

\* a return of deref_object, as its caller sees it (ghost)
Returned(before, n, depth, r) ==
    IF r.exc # "none" THEN r
    ELSE [r EXCEPT !.doc.log = Append(@,
            [n |-> n, depth |-> depth, val |-> r.val,
             pos_in |-> before.pos, pos_out |-> r.doc.pos,
             offsets_in |-> before.offsets, offsets_out |-> r.doc.offsets,
             cache_in |-> before.obj_by_num, cache_out |-> r.doc.obj_by_num])]

RECURSIVE deref_object(_, _, _)
RECURSIVE get_indirect_object(_, _, _)
RECURSIVE read_indirect_object(_, _, _)
RECURSIVE read_stream(_, _, _)

\* deref_object; a chain of more than NObjects nested dereferences follows
\* a cycle of indirect /Length entries, which ends in a RecursionError
deref_object(doc, n, depth) ==
    IF depth > NObjects THEN Raise(doc, "RecursionError")
    ELSE Returned(doc, n, depth, CatchKeyError(get_indirect_object(doc, n, depth)))

\* _get_indirect_object
get_indirect_object(doc, obj_num, depth) ==
    IF obj_num \in DOMAIN doc.obj_by_num THEN Return(doc, doc.obj_by_num[obj_num])
    ELSE IF obj_num \notin DOMAIN xref_table THEN Raise(doc, "KeyError")
    ELSE LET r == read_indirect_object(doc, xref_table[obj_num].byte_offset, depth)
         IN IF r.exc # "none" THEN r
            ELSE Return([r.doc EXCEPT !.obj_by_num = (obj_num :> r.val) @@ @], r.val)

\* read_indirect_object
read_indirect_object(doc, byte_offset, depth) ==
    LET obj_num == ObjNumAt(byte_offset)
        obj == read_object(objects[obj_num])
        at == [doc EXCEPT !.offsets = Append(@, doc.pos),
                          !.pos = AfterKeyword(obj_num),
                          !.reads = @ + 1]
    IN IF objects[obj_num].kind = "stream"
       THEN LET s == read_stream(at, obj, depth)
            IN IF s.exc # "none" THEN s
               ELSE PopAndSeek(s.doc, StreamObject(obj_num, obj, s.val.start, s.val.length))
       ELSE PopAndSeek(at, IndirectObject(obj_num, obj))

\* _read_stream
read_stream(doc, obj, depth) ==
    LET start == doc.pos
    IN IF obj.type # "Dict" THEN Raise(doc, "Exception")
       ELSE IF obj.Length = "absent" THEN Raise(doc, "KeyError")
       ELSE LET length_obj == IF obj.Length = "ref"
                              THEN deref_object(doc, obj.ref, depth + 1)
                              ELSE Return(doc, NumberValue(PayloadLength))
            IN IF length_obj.exc # "none" THEN length_obj
               ELSE IF length_obj.val.type # "Number"
                    THEN Raise(length_obj.doc, "Exception")
               ELSE LET length == length_obj.val.value
                        after == [length_obj.doc EXCEPT !.pos = @ + length]
                    IN IF after.pos # start + PayloadLength
                       THEN Raise(after, "Exception")
                       ELSE Return(after, [start |-> start, length |-> length])

\* no call of deref_object has been made
NoCall ==
    [op |-> "none", n |-> 0, calls |-> 0, exc |-> "none", val |-> NullObject,
     reads |-> 0, log |-> <<>>, seen |-> FALSE, pos |-> 0, offsets |-> <<>>,
     obj_by_num |-> EmptyTable, xref_table |-> EmptyTable]

\* a client calls document.deref_object(IndirectRef(n, 0))
DerefCall ==
    /\ ~crashed
    /\ last.calls < MaxDerefs
    /\ \E n \in ObjNumbers :
         LET doc == [obj_by_num |-> obj_by_num, offsets |-> offsets,
                     pos |-> pos, reads |-> 0, log |-> <<>>]
             r == deref_object(doc, n, 1)
         IN /\ obj_by_num' = r.doc.obj_by_num
            /\ offsets' = r.doc.offsets
            /\ pos' = r.doc.pos
            /\ crashed' = (r.exc # "none")
            /\ last' = [op |-> "deref", n |-> n, calls |-> last.calls + 1,
                        exc |-> r.exc, val |-> r.val, reads |-> r.doc.reads,
                        log |-> r.doc.log, seen |-> n \in DOMAIN first,
                        pos |-> pos, offsets |-> offsets,
                        obj_by_num |-> obj_by_num, xref_table |-> xref_table]
            /\ first' = IF r.exc = "none" /\ n \notin DOMAIN first
                        THEN (n :> r.val) @@ first ELSE first
    /\ UNCHANGED <<objects, xref_table>>
    /\ UNCHANGED <<wrapVars, tokVars, winVars, textVars, parseVars, pagesVars, contentVars, cmapVars, rc4Vars, processVars, loopVars, revVars, indVars>>
    /\ UNCHANGED <<xref_file, startxref, trailer_dict, xref_pc>>

\* between two dereferences the client reads elsewhere in the byte source
ClientSeek ==
    /\ ~crashed
    /\ \E p \in ClientPositions \ {pos} : pos' = p
    /\ last' = [last EXCEPT !.op = "seek"]
    /\ UNCHANGED <<objects, obj_by_num, offsets, first, crashed>>
    /\ UNCHANGED <<wrapVars, tokVars, winVars, xrefVars, textVars, parseVars,
                   pagesVars, contentVars, cmapVars, rc4Vars, processVars, loopVars, revVars, indVars>>

NextDeref == DerefCall \/ ClientSeek

(***************************************************************************)
(* Text extraction: TextState, TextMatrix, TextExtractor._execute_page     *)
(***************************************************************************)
\* the number of page starts and operations executed
MaxOps == 5

\* base.py, lines 217-223
TextMatrix(a, b, c, d, e, f) ==
    [a |-> a, b |-> b, c |-> c, d |-> d, e |-> e, f |-> f]

\* TextMatrix.identity
identity == TextMatrix(1, 0, 0, 1, 0, 0)

\* TextMatrix.shift
shift(m, w, h) ==
    [m EXCEPT !.e = @ + w * m.a + h * m.c, !.f = @ + w * m.b + h * m.d]

\* TextMatrix.clone: a new matrix of the same components
clone(m) == TextMatrix(m.a, m.b, m.c, m.d, m.e, m.f)

\* None, and a value that is not None
None == <<>>

Some(v) == <<v>>

\* TextState.__init__.  The matrices are objects that shift changes in
\* place: tm_is_tlm says whether _tm and _tlm are one and the same object,
\* which the two calls of identity() make false
TextState ==
    [text_leading |-> 0, text_font_size |-> 0, horizontal_scaling |-> 100,
     text_rise |-> 0, char_space |-> 0, word_space |-> 0,
     tm |-> identity, tlm |-> identity, tm_is_tlm |-> FALSE,
     last_y |-> None, last_x |-> None]

\* TextState.shift_left_tm: self.tm.shift(w, 0) changes the object _tm
shift_left_tm(ts, w) ==
    [ts EXCEPT !.tm = shift(@, w, 0),
               !.tlm = IF ts.tm_is_tlm THEN shift(@, w, 0) ELSE @]

\* an update that makes _tm the object _tlm itself
M_update_text_matrix(ts) == [ts EXCEPT !.tm = ts.tlm, !.tm_is_tlm = TRUE]

\* TextState._update_text_matrix: _tm becomes a new object
update_text_matrix(ts) == [ts EXCEPT !.tm = clone(ts.tlm), !.tm_is_tlm = FALSE]

\* a Tm that sets the text matrix only
M_set_text_matrix(ts, tm) == [ts EXCEPT !.tm = clone(tm), !.tm_is_tlm = FALSE]

\* TextState.set_text_matrix: _tlm becomes the matrix object of the
\* operation, which SetTextMatrixOperator.build has just made
set_text_matrix(ts, tm) ==
    update_text_matrix([ts EXCEPT !.tlm = tm, !.tm_is_tlm = FALSE])

\* a Td that starts the new line from the text matrix
M_move_new_line(ts, tx, ty) ==
    update_text_matrix([ts EXCEPT !.tlm = shift(ts.tm, tx, ty)])

\* TextState.move_new_line: self.tlm.shift(tx, ty) changes the object _tlm
move_new_line(ts, tx, ty) ==
    update_text_matrix([ts EXCEPT !.tlm = shift(@, tx, ty),
                                  !.tm = IF ts.tm_is_tlm THEN shift(@, tx, ty) ELSE @])

\* TextState.store_xy
store_xy(ts) == [ts EXCEPT !.last_x = Some(ts.tm.e), !.last_y = Some(ts.tm.f)]

\* the bytes of the strings shown: H e l o i and the space
TextBytes == {72, 101, 108, 111, 105, 32}

\* the standard encoding on these bytes: the character of the same code
STD_ENCODING == [y \in TextBytes |-> y]

\* encoding.get(y, '�')
Decode(encoding, y) == IF y \in DOMAIN encoding THEN encoding[y] ELSE 65533

\* font_parser.py, lines 30-34
Font(encoding, widths, missing_width) ==
    [encoding |-> encoding, widths |-> widths, missing_width |-> missing_width]

\* Font.get_pos_width
get_pos_width(ft, i) ==
    IF i \in DOMAIN ft.widths THEN ft.widths[i] ELSE ft.missing_width

\* Font.get_space_width
get_space_width(ft) == get_pos_width(ft, 32)

\* tool.py, line 73, and the default of get_font
DefaultFont == Font(STD_ENCODING, EmptyTable, 0)

\* the fonts of the documents: every glyph one or two em wide (widths are
\* whole multiples of 1000 and scalings of 100, so the floating-point
\* arithmetic of the code is exact on them)
WideFont == Font(STD_ENCODING, [i \in TextBytes |-> 1000], 0)

TallFont == Font(STD_ENCODING, [i \in TextBytes |-> 2000], 0)

\* the /Font dictionary of the /Resources of a page
PageFonts == {EmptyTable, "/F1" :> WideFont, "/F1" :> TallFont}

\* PDFDocument.handle_fonts: a name already in _font_by_ref is kept
handle_fonts(by_ref, fonts) ==
    [k \in DOMAIN by_ref \cup DOMAIN fonts |->
        IF k \in DOMAIN by_ref THEN by_ref[k] ELSE fonts[k]]

\* PDFDocument.get_font
get_font(name) ==
    IF name \in DOMAIN font_by_ref THEN font_by_ref[name] ELSE DefaultFont

\* base.py, lines 247-273
NewPage ==
    [type |-> "NewPage", s |-> <<>>, x |-> 0, y |-> 0, width |-> 0,
     font_size |-> 0, font_space_width |-> 0]

NewText == [NewPage EXCEPT !.type = "NewText"]

Text(s, x, y, width, font_size, font_space_width) ==
    [type |-> "Text", s |-> s, x |-> x, y |-> y, width |-> width,
     font_size |-> font_size, font_space_width |-> font_space_width]

\* TextState.font_size: parser.py, lines 579-581
font_size(ts) == ts.tm.a

\* sum(f(i) for i in bs)
RECURSIVE Sum(_, _)
Sum(ft, bs) ==
    IF bs = <<>> THEN 0 ELSE get_pos_width(ft, Head(bs)) + Sum(ft, Tail(bs))

\* sum(1 for i in bs if i == 32)
RECURSIVE SpaceCount(_)
SpaceCount(bs) ==
    IF bs = <<>> THEN 0
    ELSE (IF Head(bs) = 32 THEN 1 ELSE 0) + SpaceCount(Tail(bs))

\* TextExtractor._get_width
get_width(ft, ts, bs) ==
    ((Sum(ft, bs) + ts.char_space * (Len(bs) - 1) * 1000
      + ts.word_space * SpaceCount(bs) * 1000) * ts.horizontal_scaling) \div 100

\* "".join(encoding.get(y, '�') for y in bs if y)
RECURSIVE DecodeAll(_, _)
DecodeAll(encoding, bs) ==
    IF bs = <<>> THEN <<>>
    ELSE IF Head(bs) = 0 THEN DecodeAll(encoding, Tail(bs))
    ELSE <<Decode(encoding, Head(bs))>> \o DecodeAll(encoding, Tail(bs))

\* " " * factor
Spaces(factor) == [k \in 1..factor |-> 32]

\* sep.join(list(text))
RECURSIVE Join(_, _)
Join(sep, text) ==
    IF Len(text) <= 1 THEN text
    ELSE <<Head(text)>> \o sep \o Join(sep, Tail(text))

\* the text of a ShowTextString: lines 96-110
ShownText(ft, ts, bs) ==
    LET text == DecodeAll(ft.encoding, bs)
        cs == 1000 * ts.char_space
        fsw == get_space_width(ft)
    IN IF 0 < fsw /\ fsw < cs THEN Join(Spaces(cs \div fsw), text) ELSE text

\* abs
Abs(v) == IF v < 0 THEN -v ELSE v

\* TextExtractorParameters.is_other_line
is_other_line(delta_y, fs) == Abs(delta_y) > fs

\* 0 < font_space_width < (delta_x * 1000) / font_size, font_size not 0
GapExceeds(fsw, delta_x, fs) ==
    /\ 0 < fsw
    /\ IF fs > 0 THEN fsw * fs < delta_x * 1000 ELSE fsw * fs > delta_x * 1000

\* lines 112-126: a NewText is yielded before the Text
YieldsNewText(ft, ts) ==
    LET delta_y == IF ts.last_y = None THEN 0 ELSE ts.tm.f - ts.last_y[1]
        delta_x == IF ts.last_x = None THEN 0 ELSE ts.tm.e - ts.last_x[1]
    IN IF is_other_line(delta_y, font_size(ts)) THEN TRUE
       ELSE font_size(ts) # 0 /\ GapExceeds(get_space_width(ft), delta_x, font_size(ts))

\* the operands of the operations of the content streams
FontNames == {"/F1"}

FontSizes == {12, 9}

Strings == {<<72, 101, 108, 108, 111>>, <<72, 32, 105>>}

Moves == {<<100, 700>>, <<0, -14>>}

Matrices == {TextMatrix(12, 0, 0, 12, 100, 700), TextMatrix(0, 1, -1, 0, 50, 60)}

\* pdf_operation.py: an operation and its operands
Operation(kind, args) == [kind |-> kind, args |-> args]

\* no page has been started
NoPage == [count |-> 0, fonts |-> EmptyTable]

\* nothing has been executed (ghost): the number of page starts and
\* operations, the last of them with the text state it found, the size
\* operand of the most recent SetFont and the operand of the most recent
\* SetTextLeading
NoOps ==
    [n |-> 0, op |-> Operation("none", <<>>), before |-> TextState,
     Tf |-> None, TL |-> 0]

\* the operation op is executed in the text state it finds (ghost)
Executed(op) ==
    ops' = [n |-> ops.n + 1, op |-> op, before |-> text_state,
            Tf |-> IF op.kind = "SetFont" THEN Some(op.args[2]) ELSE ops.Tf,
            TL |-> IF op.kind = "SetTextLeading" THEN op.args[1] ELSE ops.TL]

\* the content parser yields one more operation of the page
InPage == page.count > 0 /\ ops.n < MaxOps

\* TextExtractor.execute: the next page; _execute_page up to its for loop,
\* lines 65-74
ExecutePage ==
    /\ ops.n < MaxOps
    /\ \E fonts \in PageFonts :
         /\ elements' = Append(elements, NewPage)
         /\ font_by_ref' = handle_fonts(font_by_ref, fonts)
         /\ font' = DefaultFont
         /\ page' = [count |-> page.count + 1, fonts |-> fonts]
    /\ Executed(Operation("NewPage", <<>>))
    /\ UNCHANGED text_state
    /\ UNCHANGED <<wrapVars, tokVars, pos, winVars, xrefVars, derefVars,
                   parseVars, pagesVars, contentVars, cmapVars, rc4Vars, processVars, loopVars, revVars, indVars>>

\* Tf: lines 77-81
SetFont ==
    /\ InPage
    /\ \E name \in FontNames, size \in FontSizes :
         /\ font' = get_font(name)
         /\ text_state' = [text_state EXCEPT !.text_font_size = size]
         /\ Executed(Operation("SetFont", <<name, size>>))
    /\ UNCHANGED <<font_by_ref, elements, page>>
    /\ UNCHANGED <<wrapVars, tokVars, pos, winVars, xrefVars, derefVars,
                   parseVars, pagesVars, contentVars, cmapVars, rc4Vars, processVars, loopVars, revVars, indVars>>

\* Ts: lines 82-84
SetTextRise ==
    /\ InPage
    /\ text_state' = [text_state EXCEPT !.text_rise = 3]
    /\ Executed(Operation("SetTextRise", <<3>>))
    /\ UNCHANGED <<font_by_ref, font, elements, page>>
    /\ UNCHANGED <<wrapVars, tokVars, pos, winVars, xrefVars, derefVars,
                   parseVars, pagesVars, contentVars, cmapVars, rc4Vars, processVars, loopVars, revVars, indVars>>

\* Tz: lines 85-87
SetHorizScaling ==
    /\ InPage
    /\ text_state' = [text_state EXCEPT !.horizontal_scaling = 200]
    /\ Executed(Operation("SetHorizScaling", <<200>>))
    /\ UNCHANGED <<font_by_ref, font, elements, page>>
    /\ UNCHANGED <<wrapVars, tokVars, pos, winVars, xrefVars, derefVars,
                   parseVars, pagesVars, contentVars, cmapVars, rc4Vars, processVars, loopVars, revVars, indVars>>

\* Tc: lines 88-90
SetCharSpacing ==
    /\ InPage
    /\ text_state' = [text_state EXCEPT !.char_space = 2]
    /\ Executed(Operation("SetCharSpacing", <<2>>))
    /\ UNCHANGED <<font_by_ref, font, elements, page>>
    /\ UNCHANGED <<wrapVars, tokVars, pos, winVars, xrefVars, derefVars,
                   parseVars, pagesVars, contentVars, cmapVars, rc4Vars, processVars, loopVars, revVars, indVars>>

\* Tw: lines 91-93
SetWordSpacing ==
    /\ InPage
    /\ text_state' = [text_state EXCEPT !.word_space = 1]
    /\ Executed(Operation("SetWordSpacing", <<1>>))
    /\ UNCHANGED <<font_by_ref, font, elements, page>>
    /\ UNCHANGED <<wrapVars, tokVars, pos, winVars, xrefVars, derefVars,
                   parseVars, pagesVars, contentVars, cmapVars, rc4Vars, processVars, loopVars, revVars, indVars>>

\* Tj: lines 94-141 (no IndexError or KeyError can arise in them)
ShowTextStringOf(S) ==
    /\ InPage
    /\ \E bs \in S :
         LET x == text_state.tm.e
             y == text_state.tm.f
             w == get_width(font, text_state, bs)
             shifted == shift_left_tm(text_state, w \div 1000)
             t == Text(ShownText(font, text_state, bs), x, y, shifted.tm.e - x,
                       font_size(text_state), get_space_width(font))
         IN /\ elements' =
                 (IF YieldsNewText(font, text_state)
                  THEN Append(elements, NewText) ELSE elements) \o <<t>>
            /\ text_state' = store_xy(shifted)
            /\ Executed(Operation("ShowTextString", <<bs>>))
    /\ UNCHANGED <<font_by_ref, font, page>>
    /\ UNCHANGED <<wrapVars, tokVars, pos, winVars, xrefVars, derefVars,
                   parseVars, pagesVars, contentVars, cmapVars, rc4Vars, processVars, loopVars, revVars, indVars>>

ShowTextString == ShowTextStringOf(Strings)

\* the strings of the byte-wise decoding: every single byte, a string with a
\* zero byte inside, a string with a byte that the encoding does not have
ShownBytes == {<<y>> : y \in 0..255} \cup {<<72, 0, 105>>, <<72, 200, 105>>}

\* the operations of a document that shows such a string first
MaxShowOps == 2

\* Tj on these strings
ShowBytes == ops.n < MaxShowOps /\ ShowTextStringOf(ShownBytes)

NextShow == ExecutePage \/ SetFont \/ ShowBytes

\* Td: lines 142-148
MoveStartNextLineOf(M) ==
    /\ InPage
    /\ \E t \in M :
         /\ text_state' = move_new_line(text_state, t[1], t[2])
         /\ Executed(Operation("MoveStartNextLine", t))
    /\ UNCHANGED <<font_by_ref, font, elements, page>>
    /\ UNCHANGED <<wrapVars, tokVars, pos, winVars, xrefVars, derefVars,
                   parseVars, pagesVars, contentVars, cmapVars, rc4Vars, processVars, loopVars, revVars, indVars>>

MoveStartNextLine == MoveStartNextLineOf(Moves)

\* moves of less than a line, down and to the right
NearMoves == {<<0, -5>>, <<40, 0>>}

\* Td by such a move
MoveNear == MoveStartNextLineOf(NearMoves)

\* the pages that set a font, show strings and move between them
NextGap == ExecutePage \/ SetFont \/ ShowTextString \/ MoveNear

\* Tm: lines 149-151
SetTextMatrix ==
    /\ InPage
    /\ \E tm \in Matrices :
         /\ text_state' = set_text_matrix(text_state, tm)
         /\ Executed(Operation("SetTextMatrix", <<tm>>))
    /\ UNCHANGED <<font_by_ref, font, elements, page>>
    /\ UNCHANGED <<wrapVars, tokVars, pos, winVars, xrefVars, derefVars,
                   parseVars, pagesVars, contentVars, cmapVars, rc4Vars, processVars, loopVars, revVars, indVars>>

\* a number of a TJ array: lines 152-155
UpdateTextMatrix ==
    /\ InPage
    /\ text_state' = shift_left_tm(text_state, (-1000) \div 1000)
    /\ Executed(Operation("UpdateTextMatrix", <<1000>>))
    /\ UNCHANGED <<font_by_ref, font, elements, page>>
    /\ UNCHANGED <<wrapVars, tokVars, pos, winVars, xrefVars, derefVars,
                   parseVars, pagesVars, contentVars, cmapVars, rc4Vars, processVars, loopVars, revVars, indVars>>


\* a T* that does not read the leading
M_MoveStartNextLineWoParams ==
    /\ InPage
    /\ text_state' = move_new_line(text_state, 0, 0)
    /\ Executed(Operation("MoveStartNextLineWoParams", <<>>))
    /\ UNCHANGED <<font_by_ref, font, elements, page>>
    /\ UNCHANGED <<wrapVars, tokVars, pos, winVars, xrefVars, derefVars,
                   parseVars, pagesVars, contentVars, cmapVars, rc4Vars,
                   processVars, loopVars, revVars, indVars>>

\* T*: lines 156-158
MoveStartNextLineWoParams ==
    /\ InPage
    /\ text_state' = move_new_line(text_state, 0, -text_state.text_leading)
    /\ Executed(Operation("MoveStartNextLineWoParams", <<>>))
    /\ UNCHANGED <<font_by_ref, font, elements, page>>
    /\ UNCHANGED <<wrapVars, tokVars, pos, winVars, xrefVars, derefVars,
                   parseVars, pagesVars, contentVars, cmapVars, rc4Vars, processVars, loopVars, revVars, indVars>>

\* TL: lines 159-161
SetTextLeading ==
    /\ InPage
    /\ text_state' = [text_state EXCEPT !.text_leading = 14]
    /\ Executed(Operation("SetTextLeading", <<14>>))
    /\ UNCHANGED <<font_by_ref, font, elements, page>>
    /\ UNCHANGED <<wrapVars, tokVars, pos, winVars, xrefVars, derefVars,
                   parseVars, pagesVars, contentVars, cmapVars, rc4Vars, processVars, loopVars, revVars, indVars>>

\* TD: MoveStartNextLineTextStateOperator.build returns SetTextLeading(-ty)
\* and MoveStartNextLine(tx, ty), which the loop executes one after the other
MoveStartNextLineTextState ==
    /\ page.count > 0
    /\ ops.n + 1 < MaxOps
    /\ \E t \in Moves \cup NearMoves :
         LET led == [text_state EXCEPT !.text_leading = -t[2]]
         IN /\ text_state' = move_new_line(led, t[1], t[2])
            /\ ops' = [n |-> ops.n + 2,
                       op |-> Operation("MoveStartNextLine", t),
                       before |-> led, Tf |-> ops.Tf, TL |-> -t[2]]
    /\ UNCHANGED <<font_by_ref, font, elements, page>>
    /\ UNCHANGED <<wrapVars, tokVars, pos, winVars, xrefVars, derefVars,
                   parseVars, pagesVars, contentVars, cmapVars, rc4Vars,
                   processVars, loopVars, revVars, indVars>>

\* the pages that set the leading and move to the next line
NextLeading ==
    \/ ExecutePage \/ SetTextLeading \/ MoveStartNextLineTextState
    \/ MoveStartNextLineWoParams \/ ShowTextString \/ SetTextMatrix

\* BT, ET and every other operation: lines 162-163, nothing is done
Ignored ==
    /\ InPage
    /\ \E kind \in {"BeginText", "EndText"} : Executed(Operation(kind, <<>>))
    /\ UNCHANGED <<text_state, font_by_ref, font, elements, page>>
    /\ UNCHANGED <<wrapVars, tokVars, pos, winVars, xrefVars, derefVars,
                   parseVars, pagesVars, contentVars, cmapVars, rc4Vars, processVars, loopVars, revVars, indVars>>

NextText ==
    \/ ExecutePage \/ SetFont \/ SetTextRise \/ SetHorizScaling
    \/ SetCharSpacing \/ SetWordSpacing \/ ShowTextString \/ MoveStartNextLine
    \/ SetTextMatrix \/ UpdateTextMatrix \/ MoveStartNextLineWoParams
    \/ SetTextLeading \/ Ignored

(***************************************************************************)
(* Objects: ObjectParser.parse (parser.py, lines 461-531)                  *)
(***************************************************************************)
MaxTokens == 5

\* base.py: BooleanObject, ArrayObject, DictObject, IndirectRef
BooleanObject(v) == [type |-> "Boolean", value |-> v]
ArrayObject(arr) == [type |-> "Array", arr |-> arr]
DictObject(d) == [type |-> "Dict", d |-> d]
IndirectRef(obj_num, gen_num) ==
    [type |-> "IndirectRef", obj_num |-> obj_num, gen_num |-> gen_num]

\* parse has not returned
NoObject == [type |-> "NoObject"]

\* the words b"R", b"true", b"false", b"null", b"endobj", b"stream"
W_R == WordToken(<<82>>)
W_true == WordToken(<<116, 114, 117, 101>>)
W_false == WordToken(<<102, 97, 108, 115, 101>>)
W_null == WordToken(<<110, 117, 108, 108>>)
W_endobj == WordToken(<<101, 110, 100, 111, 98, 106>>)
W_stream == WordToken(<<115, 116, 114, 101, 97, 109>>)

\* the names /Length, /Filter, /FlateDecode and the numbers 3 and 0
N_Length == NameObject(<<47, 76, 101, 110, 103, 116, 104>>)
N_Filter == NameObject(<<47, 70, 105, 108, 116, 101, 114>>)
N_FlateDecode == NameObject(<<47, 70, 108, 97, 116, 101, 68, 101, 99, 111, 100, 101>>)
Num_3 == NumberObject(<<51>>)
Num_0 == NumberObject(<<48>>)

\* the tokens that the tokenizer hands to the parser
Literals == {N_Length, N_Filter, N_FlateDecode, Num_3, Num_0}
Words == {W_R, W_true, W_false, W_null, W_endobj, W_stream}

\* << /Length 3 0 R /Filter /FlateDecode >>
StreamDict ==
    <<OpenDictToken, N_Length, Num_3, Num_0, W_R, N_Filter, N_FlateDecode,
      CloseDictToken>>

\* << /Length 3 /Length 0 >>
RepeatDict ==
    <<OpenDictToken, N_Length, Num_3, N_Length, Num_0, CloseDictToken>>

\* next(self._it) returns token: any sequence of at most MaxTokens tokens is
\* read, and the two dictionaries above to their end
Reads(token) ==
    /\ parse_exc = "none"
    /\ returned = NoObject
    /\ \/ Len(parsed) < MaxTokens
       \/ \E whole \in {StreamDict, RepeatDict} :
            /\ Len(parsed) < Len(whole)
            /\ Append(parsed, token) = SubSeq(whole, 1, Len(parsed) + 1)
    /\ parsed' = Append(parsed, token)

\* an exception leaves parse
Raises(st, e) ==
    /\ stack' = st
    /\ returned' = returned
    /\ parse_exc' = e

\* if stack: stack[-1].append(obj) else: return obj
Gives(st, obj) ==
    /\ parse_exc' = "none"
    /\ IF st # <<>>
       THEN /\ stack' = [st EXCEPT ![Len(st)] = Append(@, obj)]
            /\ returned' = returned
       ELSE /\ stack' = st
            /\ returned' = obj

\* a loop that keeps the first value of a repeated key
RECURSIVE M_BuildDict(_, _, _)
M_BuildDict(dict_objs, i, d) ==
    IF i > Len(dict_objs) THEN [d |-> d, exc |-> "none"]
    ELSE IF dict_objs[i].type # "Name" THEN [d |-> d, exc |-> "Exception"]
    ELSE IF i + 1 > Len(dict_objs) THEN [d |-> d, exc |-> "IndexError"]
    ELSE M_BuildDict(dict_objs, i + 2, d @@ (dict_objs[i].bs :> dict_objs[i + 1]))

\* the for loop of the CloseDictToken branch from index i on: checked_cast
\* raises Exception on a key that is no name, dict_objs[i + 1] raises
\* IndexError after the last key of an odd list
RECURSIVE BuildDict(_, _, _)
BuildDict(dict_objs, i, d) ==
    IF i > Len(dict_objs) THEN [d |-> d, exc |-> "none"]
    ELSE IF dict_objs[i].type # "Name" THEN [d |-> d, exc |-> "Exception"]
    ELSE IF i + 1 > Len(dict_objs) THEN [d |-> d, exc |-> "IndexError"]
    ELSE BuildDict(dict_objs, i + 2, (dict_objs[i].bs :> dict_objs[i + 1]) @@ d)

\* a reference that takes the later value as object number
M_PopRef(container) ==
    LET n == Len(container) IN
    IF n < 2 THEN [exc |-> "IndexError", rest |-> <<>>, obj |-> NoObject]
    ELSE [exc |-> "none", rest |-> SubSeq(container, 1, n - 2),
          obj |-> IndirectRef(container[n], container[n - 1])]

\* gen_num = stack[-1].pop(); obj_num = stack[-1].pop();
\* obj = IndirectRef(obj_num, gen_num).  The first pop finds the opening
\* token at least; the second raises IndexError on a list left empty.
PopRef(container) ==
    LET n == Len(container) IN
    IF n < 2 THEN [exc |-> "IndexError", rest |-> <<>>, obj |-> NoObject]
    ELSE [exc |-> "none", rest |-> SubSeq(container, 1, n - 2),
          obj |-> IndirectRef(container[n - 1], container[n])]

OnOpen ==
    \E token \in {OpenDictToken, OpenArrayToken} :
        /\ Reads(token)
        /\ stack' = Append(stack, <<token>>)
        /\ UNCHANGED <<returned, parse_exc>>
        /\ UNCHANGED <<wrapVars, tokVars, pos, winVars, xrefVars, derefVars,
                       textVars, pagesVars, contentVars, cmapVars, rc4Vars, processVars, loopVars, revVars, indVars>>

OnCloseDict ==
    /\ Reads(CloseDictToken)
    /\ IF stack = <<>> THEN Raises(stack, "IndexError")
       ELSE LET dict_objs == stack[Len(stack)]
                st == SubSeq(stack, 1, Len(stack) - 1)
                b == BuildDict(dict_objs, 2, EmptyTable)
            IN IF dict_objs[1] # OpenDictToken THEN Raises(st, "AssertionError")
               ELSE IF b.exc # "none" THEN Raises(st, b.exc)
               ELSE Gives(st, DictObject(b.d))
    /\ UNCHANGED <<wrapVars, tokVars, pos, winVars, xrefVars, derefVars,
                   textVars, pagesVars, contentVars, cmapVars, rc4Vars, processVars, loopVars, revVars, indVars>>

OnCloseArray ==
    /\ Reads(CloseArrayToken)
    /\ IF stack = <<>> THEN Raises(stack, "IndexError")
       ELSE LET array_objs == stack[Len(stack)]
                st == SubSeq(stack, 1, Len(stack) - 1)
            IN IF array_objs[1] # OpenArrayToken THEN Raises(st, "AssertionError")
               ELSE Gives(st, ArrayObject(Tail(array_objs)))
    /\ UNCHANGED <<wrapVars, tokVars, pos, winVars, xrefVars, derefVars,
                   textVars, pagesVars, contentVars, cmapVars, rc4Vars, processVars, loopVars, revVars, indVars>>

\* isinstance(token, (StringObject, NumberObject, NameObject))
OnLiteral ==
    \E token \in Literals :
        /\ Reads(token)
        /\ Gives(stack, token)
        /\ UNCHANGED <<wrapVars, tokVars, pos, winVars, xrefVars, derefVars,
                       textVars, pagesVars, contentVars, cmapVars, rc4Vars, processVars, loopVars, revVars, indVars>>

\* isinstance(token, WordToken): b"true" is tested twice, so that b"false"
\* reaches the else branch with the other words
OnWord ==
    \E token \in Words :
        /\ Reads(token)
        /\ IF token = W_true THEN Gives(stack, BooleanObject(TRUE))
           ELSE IF token = W_true THEN Gives(stack, BooleanObject(FALSE))
           ELSE IF token = W_null THEN Gives(stack, NullObject)
           ELSE IF token = W_R
           THEN IF stack = <<>> THEN Raises(stack, "IndexError")
                ELSE LET r == PopRef(stack[Len(stack)]) IN
                     IF r.exc # "none" THEN Raises(stack, r.exc)
                     ELSE Gives([stack EXCEPT ![Len(stack)] = r.rest], r.obj)
           ELSE Raises(stack, "AssertionError")
        /\ UNCHANGED <<wrapVars, tokVars, pos, winVars, xrefVars, derefVars,
                       textVars, pagesVars, contentVars, cmapVars, rc4Vars, processVars, loopVars, revVars, indVars>>

\* next(self._it) raises StopIteration: the tokens end before the object
OnStopIteration ==
    /\ parse_exc = "none"
    /\ returned = NoObject
    /\ Raises(stack, "StopIteration")
    /\ UNCHANGED parsed
    /\ UNCHANGED <<wrapVars, tokVars, pos, winVars, xrefVars, derefVars,
                   textVars, pagesVars, contentVars, cmapVars, rc4Vars, processVars, loopVars, revVars, indVars>>

NextParse ==
    \/ OnOpen
    \/ OnCloseDict
    \/ OnCloseArray
    \/ OnLiteral
    \/ OnWord
    \/ OnStopIteration

(***************************************************************************)
(* Pages: PDFDocument.get_pages (parser.py, lines 134-155)                 *)
(***************************************************************************)
MaxNodes == 4

\* the nodes below the /Pages object of the catalog, which is node 0
Nodes == 1..MaxNodes

\* the elements of a set of nodes in ascending or descending order
RECURSIVE Ordered(_, _)
Ordered(S, desc) ==
    IF S = {} THEN <<>>
    ELSE LET n == CHOOSE x \in S :
                     \A y \in S : IF desc THEN y <= x ELSE x <= y
         IN <<n>> \o Ordered(S \ {n}, desc)

\* the page trees: every node has one parent, a node of a smaller number;
\* the /Kids arrays list the children in ascending or descending order; the
\* nodes with a /Contents entry are some of the nodes without children
PageTrees ==
    LET Parents == {par \in [Nodes -> 0..(MaxNodes - 1)] : \A n \in Nodes : par[n] < n}
        Children(par, p) == {n \in Nodes : par[n] = p}
    IN UNION {
         {[Kids |-> [p \in 0..MaxNodes |-> Ordered(Children(par, p), desc)],
           Contents |-> C] :
              C \in SUBSET {n \in Nodes : Children(par, n) = {}}} :
         par \in Parents, desc \in BOOLEAN}

NoTree == [Kids |-> EmptyTable, Contents |-> {}]

\* root_object[b"/Pages"][b"/Kids"]
get_root_pages_kids == page_tree.Kids[0]

\* a worklist that puts the kids after the remaining elements
M_Expand(kids, st) == st \o kids

\* stack = list(kids) + stack
Expand(kids, st) == kids \o st

\* kids = self.get_root_pages_kids(); stack = list(kids)
PagesStart ==
    /\ pages_pc = "idle"
    /\ kid_stack' = get_root_pages_kids
    /\ pages_pc' = "loop"
    /\ UNCHANGED <<page_tree, yielded>>
    /\ UNCHANGED <<wrapVars, tokVars, pos, winVars, xrefVars, derefVars,
                   textVars, parseVars, contentVars, cmapVars, rc4Vars, processVars, loopVars, revVars, indVars>>

\* kid = stack.pop(0), a node with /Contents: yield kid_object
PagesYield ==
    /\ pages_pc = "loop"
    /\ kid_stack # <<>>
    /\ Head(kid_stack) \in page_tree.Contents
    /\ kid_stack' = Tail(kid_stack)
    /\ yielded' = Append(yielded, Head(kid_stack))
    /\ UNCHANGED <<page_tree, pages_pc>>
    /\ UNCHANGED <<wrapVars, tokVars, pos, winVars, xrefVars, derefVars,
                   textVars, parseVars, contentVars, cmapVars, rc4Vars, processVars, loopVars, revVars, indVars>>

\* kid = stack.pop(0), a node without /Contents:
\* kids = kid_object[b"/Kids"]; stack = list(kids) + stack
PagesExpand ==
    /\ pages_pc = "loop"
    /\ kid_stack # <<>>
    /\ Head(kid_stack) \notin page_tree.Contents
    /\ kid_stack' = Expand(page_tree.Kids[Head(kid_stack)], Tail(kid_stack))
    /\ UNCHANGED <<page_tree, yielded, pages_pc>>
    /\ UNCHANGED <<wrapVars, tokVars, pos, winVars, xrefVars, derefVars,
                   textVars, parseVars, contentVars, cmapVars, rc4Vars, processVars, loopVars, revVars, indVars>>

\* while stack: the stack is empty, the generator ends
PagesDone ==
    /\ pages_pc = "loop"
    /\ kid_stack = <<>>
    /\ pages_pc' = "done"
    /\ UNCHANGED <<page_tree, kid_stack, yielded>>
    /\ UNCHANGED <<wrapVars, tokVars, pos, winVars, xrefVars, derefVars,
                   textVars, parseVars, contentVars, cmapVars, rc4Vars, processVars, loopVars, revVars, indVars>>

NextPages == PagesStart \/ PagesYield \/ PagesExpand \/ PagesDone

(***************************************************************************)
(* The content parser (content_parser.py, pdf_operator.py)                 *)
(***************************************************************************)
\* the tokens that parse_content reads from one content stream
MaxContent == 5

\* TokenQueue.ignore: the queue is empty afterwards
TokenQueue_ignore(q) == <<>>

\* TokenQueue.shift: the first element leaves the queue; an empty queue
\* gives None
TokenQueue_shift(q) ==
    IF q = <<>> THEN [queue |-> q, ret |-> NoToken]
    ELSE [queue |-> Tail(q), ret |-> Head(q)]

\* TokenQueue.shift_n: the first n elements, padded with None, and the queue
\* is cleared
TokenQueue_shift_n(q, n) ==
    [queue |-> <<>>,
     ret |-> [i \in 1..n |-> IF i <= Len(q) THEN q[i] ELSE NoToken]]

\* checked_cast(typ, val): check raises Exception unless val is a typ
checked_cast(typ, val) == IF val.type = typ THEN "none" ELSE "Exception"

\* int(bs) on decimal digits
RECURSIVE int(_)
int(bs) ==
    IF bs = <<>> THEN 0
    ELSE 10 * int(SubSeq(bs, 1, Len(bs) - 1)) + (bs[Len(bs)] - ZERO_DIGIT)

\* what Operator.build does: the queue it leaves, the operations it returns,
\* the exception it raises
Built(q, os) == [queue |-> q, operations |-> os, exc |-> "none"]
Failed(q, exc) == [queue |-> q, operations |-> <<>>, exc |-> exc]

\* Operator.build of the base class: the operands of an ignored operator
\* are cleared
Operator(q) == Built(<<>>, <<>>)

\* BeginTextOperator.build
BeginTextOperator(q) ==
    Built(TokenQueue_ignore(q), <<Operation("BeginText", <<>>)>>)

\* MoveStartNextLineOperator.build: shift_n(2) clears the queue before the
\* operands are cast
MoveStartNextLineOperator(q) ==
    LET s == TokenQueue_shift_n(q, 2)
        bad == {i \in 1..2 : checked_cast("Number", s.ret[i]) # "none"}
    IN IF bad # {} THEN Failed(s.queue, "Exception")
       ELSE IF \E i \in 1..2 : value(s.ret[i]) = "ValueError"
       THEN Failed(s.queue, "ValueError")
       ELSE Built(s.queue, <<Operation("MoveStartNextLine",
                                       <<int(s.ret[1].bs), int(s.ret[2].bs)>>)>>)

\* ShowTextStringOperator.build: shift takes one operand and leaves the rest
ShowTextStringOperator(q) ==
    LET s == TokenQueue_shift(q)
    IN IF checked_cast("String", s.ret) # "none" THEN Failed(s.queue, "Exception")
       ELSE Built(s.queue, <<Operation("ShowTextString", <<s.ret.bs>>)>>)

\* the mnemonics BT, Td, Tj, f and an unknown one, zz
W_BT == WordToken(<<66, 84>>)
W_Td == WordToken(<<84, 100>>)
W_Tj == WordToken(<<84, 106>>)
W_f == WordToken(<<F_LOWER>>)
W_zz == WordToken(<<Z_LOWER, Z_LOWER>>)

\* operator_by_token_bytes, the entries of BT, Td, Tj and f
operator_by_token_bytes ==
    (W_BT.bs :> "BeginTextOperator") @@ (W_Td.bs :> "MoveStartNextLineOperator")
    @@ (W_Tj.bs :> "ShowTextStringOperator") @@ (W_f.bs :> "FillPathNZWOperator")

\* operator.build(stack)
build(operator, q) ==
    CASE operator = "BeginTextOperator" -> BeginTextOperator(q)
      [] operator = "MoveStartNextLineOperator" -> MoveStartNextLineOperator(q)
      [] operator = "ShowTextStringOperator" -> ShowTextStringOperator(q)
      [] operator = "FillPathNZWOperator" -> Operator(q)

\* the operands of a content stream: two numbers, a string and a name
Operands ==
    {NumberObject(<<49>>), NumberObject(<<50, 52>>), StringObject(<<72, 105>>),
     NameObject(<<SLASH, F_LOWER>>)}

\* the loop of parse_content can take one more token
InContent == content_exc = "none" /\ ~eof /\ Len(tokens) < MaxContent

\* parse_content, a token that is no word: it is pushed on the queue
ContentOperand ==
    /\ InContent
    /\ \E token \in Operands :
         /\ tokens' = Append(tokens, token)
         /\ queue' = Append(queue, token)
    /\ UNCHANGED <<operations, content_exc>>
    /\ UNCHANGED <<wrapVars, state, err, pos, winVars, xrefVars, derefVars,
                   textVars, parseVars, pagesVars, cmapVars, rc4Vars, processVars, loopVars, revVars, indVars>>

\* parse_content, a word of the operator table: the operator builds its
\* operations from the queue; an exception of build leaves the generator
ContentOperator ==
    /\ InContent
    /\ \E token \in {W_BT, W_Td, W_Tj, W_f} :
         LET b == build(operator_by_token_bytes[token.bs], queue)
         IN /\ tokens' = Append(tokens, token)
            /\ queue' = b.queue
            /\ operations' = operations \o b.operations
            /\ content_exc' = b.exc
    /\ UNCHANGED <<wrapVars, state, err, pos, winVars, xrefVars, derefVars,
                   textVars, parseVars, pagesVars, cmapVars, rc4Vars, processVars, loopVars, revVars, indVars>>

\* parse_content, a word that is not in the operator table: the KeyError is
\* caught and logged
ContentUnknown ==
    /\ InContent
    /\ \E token \in {W_zz} :
         /\ token.bs \notin DOMAIN operator_by_token_bytes
         /\ tokens' = Append(tokens, token)
    /\ UNCHANGED <<queue, operations, content_exc>>
    /\ UNCHANGED <<wrapVars, state, err, pos, winVars, xrefVars, derefVars,
                   textVars, parseVars, pagesVars, cmapVars, rc4Vars, processVars, loopVars, revVars, indVars>>

\* the tokenizer is exhausted: the generator returns
ContentEnd ==
    /\ content_exc = "none"
    /\ ~eof
    /\ eof' = TRUE
    /\ UNCHANGED <<input, sw_prev, sw_unget, hist, tokVars, pos, winVars,
                   xrefVars, derefVars, textVars, parseVars, pagesVars,
                   contentVars, cmapVars, rc4Vars, processVars, loopVars, revVars, indVars>>

NextContent == ContentOperand \/ ContentOperator \/ ContentUnknown \/ ContentEnd

\* the body of the loop of parse_content on one token: the queue it leaves,
\* the operations it yields, the exception that leaves the generator
parse_content(q, token) ==
    IF token.type = "Word"
    THEN IF token.bs \in DOMAIN operator_by_token_bytes
         THEN build(operator_by_token_bytes[token.bs], q)
         ELSE Built(q, <<>>)
    ELSE Built(Append(q, token), <<>>)

\* the bytes of the content streams: T j ( ) / 1 < >
ContentBytes ==
    {84, 106, LEFT_PARENTHESIS, RIGHT_PARENTHESIS, SLASH, 49, LESS_THAN,
     GREATER_THAN}

\* parse_content on the bytes of a stream, one turn of the tokenizer: the
\* token that the tokenizer yields, if any, goes through the body of the loop
ContentTurn(name) ==
    /\ content_exc = "none"
    /\ TokTurn(name, ContentBytes)
    /\ IF tokens' # tokens
       THEN LET b == parse_content(queue, tokens'[Len(tokens')])
            IN /\ queue' = b.queue
               /\ operations' = operations \o b.operations
               /\ content_exc' = b.exc
       ELSE UNCHANGED contentVars
    /\ UNCHANGED <<eof, hist, pos, winVars, xrefVars, derefVars, textVars,
                   parseVars, pagesVars, cmapVars, rc4Vars, processVars, loopVars, revVars, indVars>>

\* the states that these bytes lead to
ContentStates == StateNames \ {"Comment"}

\* the bytes of the stream are exhausted: the generator returns
ContentStop == content_exc = "none" /\ TokEof

NextContentBytes ==
    \/ \E name \in ContentStates : ContentTurn(name)
    \/ ContentStop

(***************************************************************************)
(* The ToUnicode CMap parser (content_parser.py, lines 48-96)              *)
(***************************************************************************)
\* the pairs of a bfchar block
MaxPairs == 3

\* int.from_bytes(bs, "big")
RECURSIVE from_bytes(_)
from_bytes(bs) ==
    IF bs = <<>> THEN 0
    ELSE 256 * from_bytes(SubSeq(bs, 1, Len(bs) - 1)) + bs[Len(bs)]

\* the 16-bit code units of bs, big-endian
Units(bs) == [k \in 1..(Len(bs) \div 2) |-> 256 * bs[2 * k - 1] + bs[2 * k]]

\* the code points of a sequence of UTF-16 code units; a surrogate that has
\* no partner makes the decoding fail
RECURSIVE Points(_)
Points(us) ==
    IF us = <<>> THEN <<>>
    ELSE IF us[1] \in 55296..56319
    THEN IF Len(us) >= 2 /\ us[2] \in 56320..57343
         THEN LET rest == Points(SubSeq(us, 3, Len(us)))
              IN IF rest = "UnicodeDecodeError" THEN rest
                 ELSE <<65536 + (us[1] - 55296) * 1024 + (us[2] - 56320)>> \o rest
         ELSE "UnicodeDecodeError"
    ELSE IF us[1] \in 56320..57343 THEN "UnicodeDecodeError"
    ELSE LET rest == Points(Tail(us))
         IN IF rest = "UnicodeDecodeError" THEN rest ELSE <<us[1]>> \o rest

\* bs.decode("utf-16-be"): the code points, or UnicodeDecodeError
decode_utf_16_be(bs) ==
    IF Len(bs) % 2 = 1 THEN "UnicodeDecodeError" ELSE Points(Units(bs))

\* the words beginbfchar and endbfchar
W_beginbfchar == WordToken(<<98, 101, 103, 105, 110, 98, 102, 99, 104, 97, 114>>)
W_endbfchar == WordToken(<<101, 110, 100, 98, 102, 99, 104, 97, 114>>)

\* the hex strings of the blocks: the codes 01, 0001 and 02, and the values
\* A, B, U+1F600 as a surrogate pair, and a string of one byte
Codes == {StringObject(<<1>>), StringObject(<<0, 1>>), StringObject(<<2>>)}
Unis ==
    {StringObject(<<0, 65>>), StringObject(<<0, 66>>),
     StringObject(<<216, 61, 222, 0>>), StringObject(<<65>>)}

\* the sequences of m pairs <c> <u>
RECURSIVE PairSeqs(_)
PairSeqs(m) ==
    IF m = 0 THEN {<<>>}
    ELSE {ps \o <<c, u>> : ps \in PairSeqs(m - 1), c \in Codes, u \in Unis}

\* the streams: n beginbfchar, m pairs, endbfchar, where n may differ from m
CMapStreams ==
    {<<NumberObject(<<ZERO_DIGIT + n>>), W_beginbfchar>> \o ps \o <<W_endbfchar>> :
        n \in 1..MaxPairs, ps \in UNION {PairSeqs(m) : m \in 1..MaxPairs}}

\* the loop of parse_to_unicode reads its next token
InCMap == cmap_pc = "loop" /\ cmap_i < Len(cmap_tokens)
Token == cmap_tokens[cmap_i + 1]

\* the state after the entries of endbfchar from index i on (0-based) have
\* been stored: the encoding, or the exception raised on the way
RECURSIVE StoreFrom(_, _, _, _)
StoreFrom(i, count, stk, enc) ==
    IF i >= count THEN [exc |-> "none", encoding |-> enc]
    ELSE IF i + 2 > Len(stk) THEN [exc |-> "IndexError", encoding |-> enc]
    ELSE IF checked_cast("String", stk[i + 1]) # "none"
            \/ checked_cast("String", stk[i + 2]) # "none"
    THEN [exc |-> "Exception", encoding |-> enc]
    ELSE LET code == from_bytes(stk[i + 1].bs)
             uni == decode_utf_16_be(stk[i + 2].bs)
         IN IF uni = "UnicodeDecodeError"
            THEN [exc |-> "UnicodeDecodeError", encoding |-> enc]
            ELSE StoreFrom(i + 2, count, stk,
                           [c \in DOMAIN enc \cup {code} |->
                               IF c = code THEN uni ELSE enc[c]])

\* range(0, fchar_count, 2) starts at 0
StoreAll(count, stk, enc) == StoreFrom(0, count, stk, enc)

\* a token that is no word is appended to the stack
CMapOperand ==
    /\ InCMap
    /\ Token.type # "Word"
    /\ cmap_stack' = Append(cmap_stack, Token)
    /\ cmap_i' = cmap_i + 1
    /\ UNCHANGED <<cmap_tokens, fchar_count, cmap_encoding, cmap_pc>>
    /\ UNCHANGED <<wrapVars, tokVars, pos, winVars, xrefVars, derefVars,
                   textVars, parseVars, pagesVars, contentVars, rc4Vars, processVars, loopVars, revVars, indVars>>

\* beginbfchar: fchar_count is the value of the first element of the stack,
\* and the stack is emptied
CMapBeginBfChar ==
    /\ InCMap
    /\ Token = W_beginbfchar
    /\ cmap_i' = cmap_i + 1
    /\ IF cmap_stack = <<>>
       THEN cmap_pc' = "IndexError" /\ UNCHANGED <<cmap_stack, fchar_count>>
       ELSE IF checked_cast("Number", cmap_stack[1]) # "none"
       THEN cmap_pc' = "Exception" /\ UNCHANGED <<cmap_stack, fchar_count>>
       ELSE IF value(cmap_stack[1]) = "ValueError"
       THEN cmap_pc' = "ValueError" /\ UNCHANGED <<cmap_stack, fchar_count>>
       ELSE /\ fchar_count' = int(cmap_stack[1].bs)
            /\ cmap_stack' = <<>>
            /\ UNCHANGED cmap_pc
    /\ UNCHANGED <<cmap_tokens, cmap_encoding>>
    /\ UNCHANGED <<wrapVars, tokVars, pos, winVars, xrefVars, derefVars,
                   textVars, parseVars, pagesVars, contentVars, rc4Vars, processVars, loopVars, revVars, indVars>>

\* endbfchar: the entries are stored and the stack is emptied
CMapEndBfChar ==
    /\ InCMap
    /\ Token = W_endbfchar
    /\ cmap_i' = cmap_i + 1
    /\ LET r == StoreAll(fchar_count, cmap_stack, cmap_encoding)
       IN /\ cmap_encoding' = r.encoding
          /\ IF r.exc = "none"
             THEN cmap_stack' = <<>> /\ UNCHANGED cmap_pc
             ELSE cmap_pc' = r.exc /\ UNCHANGED cmap_stack
    /\ UNCHANGED <<cmap_tokens, fchar_count>>
    /\ UNCHANGED <<wrapVars, tokVars, pos, winVars, xrefVars, derefVars,
                   textVars, parseVars, pagesVars, contentVars, rc4Vars, processVars, loopVars, revVars, indVars>>

\* the tokenizer is exhausted: return encoding
CMapReturn ==
    /\ cmap_pc = "loop"
    /\ cmap_i = Len(cmap_tokens)
    /\ cmap_pc' = "returned"
    /\ UNCHANGED <<cmap_tokens, cmap_i, cmap_stack, fchar_count, cmap_encoding>>
    /\ UNCHANGED <<wrapVars, tokVars, pos, winVars, xrefVars, derefVars,
                   textVars, parseVars, pagesVars, contentVars, rc4Vars, processVars, loopVars, revVars, indVars>>

NextCMap == CMapOperand \/ CMapBeginBfChar \/ CMapEndBfChar \/ CMapReturn

(***************************************************************************)
(* Encryption (security.py)                                                *)
(***************************************************************************)
\* the bytes of a buffer, and the chunks fed to one iterator
MaxData == 3
MaxChunks == 3

\* a mistaken keystream combination: the sum modulo 256
M_Xor(a, b) == (a + b) % 256

\* b ^ cipher_byte on bytes
RECURSIVE Xor(_, _)
Xor(a, b) ==
    IF a = 0 THEN b
    ELSE IF b = 0 THEN a
    ELSE ((a + b) % 2) + 2 * Xor(a \div 2, b \div 2)

\* permutation[i], permutation[j] = permutation[j], permutation[i]
Swap(permutation, i, j) ==
    [permutation EXCEPT ![i] = permutation[j], ![j] = permutation[i]]

\* _init_ARC4, one iteration of the loop; key[i % len_key] is the 0-based
\* index
InitStep(i, st, key) ==
    LET j2 == (st.j + st.permutation[i] + key[(i % Len(key)) + 1]) % 256
    IN [permutation |-> Swap(st.permutation, i, j2), j |-> j2]

\* _init_ARC4, the iterations lo .. hi - 1 of the loop, in order (j is a byte:
\* the test on half.j only makes the first half be evaluated before the second)
RECURSIVE InitRange(_, _, _, _)
InitRange(lo, hi, st, key) ==
    IF hi = lo + 1 THEN InitStep(lo, st, key)
    ELSE LET mid == (lo + hi) \div 2
             half == InitRange(lo, mid, st, key)
         IN IF half.j \in 0..255 THEN InitRange(mid, hi, half, key) ELSE half

\* _init_ARC4: the key schedule on list(range(256))
init_ARC4(key) ==
    InitRange(0, 256, [permutation |-> [n \in 0..255 |-> n], j |-> 0], key).permutation

\* the loop over data of ARC4 and of ARC4_iterator.chunk, from the k-th byte
\* on: the permutation, i and j it leaves and the bytes it appends to ret
RECURSIVE Loop(_, _, _, _, _, _)
Loop(permutation, i, j, buf, k, ret) ==
    IF k > Len(buf)
    THEN [permutation |-> permutation, i |-> i, j |-> j, ret |-> ret]
    ELSE LET i2 == (i + 1) % 256
             j2 == (j + permutation[i2]) % 256
             p2 == Swap(permutation, i2, j2)
             cipher_byte == p2[(p2[i2] + p2[j2]) % 256]
         IN Loop(p2, i2, j2, buf, k + 1, Append(ret, Xor(buf[k], cipher_byte)))

\* ARC4(key, data): a new permutation, i = 0 and j = 0
ARC4(key, buf) == Loop(init_ARC4(key), 0, 0, buf, 1, <<>>).ret

\* ARC4_iterator.__init__
ARC4_iterator(key) == [permutation |-> init_ARC4(key), i |-> 0, j |-> 0]

\* no iterator has been made
NoIterator == [permutation |-> <<>>, i |-> 0, j |-> 0]

\* a mistaken ARC4_iterator.chunk: every chunk starts at i = 0 and j = 0
M_chunk(it, buf) == Loop(it.permutation, 0, 0, buf, 1, <<>>)

\* ARC4_iterator.chunk: the iterator afterwards and the bytes returned
chunk(it, buf) == Loop(it.permutation, it.i, it.j, buf, 1, <<>>)

\* struct.pack("<i", n)[:k] for 0 <= n < 2^31: the k low-order bytes, the
\* lowest first
RECURSIVE pack_le(_, _)
pack_le(n, k) == IF k = 0 THEN <<>> ELSE <<n % 256>> \o pack_le(n \div 256, k - 1)

\* hashlib.md5(bs).digest(): 16 bytes, each a function of every byte of bs
\* and of its length (the library's compression function is not part of the
\* repository; only its being a function of bs is used)
RECURSIVE Mix(_, _, _)
Mix(bs, k, h) ==
    IF bs = <<>> THEN h
    ELSE Mix(Tail(bs), k, (h * 31 + Head(bs) + k) % 256)
md5(bs) == [k \in 1..16 |-> Mix(bs, k, (Len(bs) + 7 * k) % 256)]

\* Encrypter.get_rc4_key, aes = False
get_rc4_key(file_key, obj_num, gen_num) ==
    LET key == file_key \o pack_le(obj_num, 3) \o pack_le(gen_num, 2)
        k == IF Len(key) > 16 THEN 16 ELSE Len(key)
    IN SubSeq(md5(key), 1, k)

\* Encrypter.encrypt_data
encrypt_data(file_key, obj_num, gen_num, buf) ==
    ARC4(get_rc4_key(file_key, obj_num, gen_num), buf)

\* Encrypter.chunks_encrypter
chunks_encrypter(file_key, obj_num, gen_num) ==
    ARC4_iterator(get_rc4_key(file_key, obj_num, gen_num))

\* the file keys: one of 5 bytes, one of 16 bytes
FileKeys ==
    {<<1, 2, 3, 4, 5>>, [k \in 1..16 |-> 16 * k - 1]}

\* the object identifiers: object and generation numbers of one and of more
\* bytes
ObjIds == {<<1, 0>>, <<66051, 0>>, <<1, 258>>}

\* the buffers: up to MaxData bytes out of 0, A and 255
RECURSIVE Buffers(_)
Buffers(n) ==
    IF n = 0 THEN {<<>>}
    ELSE Buffers(n - 1) \cup
         {Append(b, y) : b \in {c \in Buffers(n - 1) : Len(c) = n - 1}, y \in {0, 65, 255}}

\* encrypt_data on the buffer
Encrypt ==
    /\ encrypted = None
    /\ encrypted' = Some(encrypt_data(encryption_key, obj_id[1], obj_id[2], data))
    /\ UNCHANGED <<encryption_key, obj_id, data, decrypted, ec, ec_fed, ec_out>>
    /\ UNCHANGED <<wrapVars, tokVars, pos, winVars, xrefVars, derefVars,
                   textVars, parseVars, pagesVars, contentVars, cmapVars, processVars, loopVars, revVars, indVars>>

\* encrypt_data on the result, with the same object identifier
EncryptAgain ==
    /\ encrypted # None
    /\ decrypted = None
    /\ decrypted' =
         Some(encrypt_data(encryption_key, obj_id[1], obj_id[2], encrypted[1]))
    /\ UNCHANGED <<encryption_key, obj_id, data, encrypted, ec, ec_fed, ec_out>>
    /\ UNCHANGED <<wrapVars, tokVars, pos, winVars, xrefVars, derefVars,
                   textVars, parseVars, pagesVars, contentVars, cmapVars, processVars, loopVars, revVars, indVars>>

NextEncrypt == Encrypt \/ EncryptAgain

\* the bytes of data fed so far
RECURSIVE Total(_)
Total(ns) == IF ns = <<>> THEN 0 ELSE Head(ns) + Total(Tail(ns))

\* stream_window: ec = encrypter.chunks_encrypter(obj_num, gen_num)
NewIterator ==
    /\ ec = NoIterator
    /\ ec' = chunks_encrypter(encryption_key, obj_id[1], obj_id[2])
    /\ UNCHANGED <<encryption_key, obj_id, data, encrypted, decrypted, ec_fed,
                   ec_out>>
    /\ UNCHANGED <<wrapVars, tokVars, pos, winVars, xrefVars, derefVars,
                   textVars, parseVars, pagesVars, contentVars, cmapVars, processVars, loopVars, revVars, indVars>>

\* stream_window: yield ec.chunk(c), for the next n bytes of the buffer
FeedChunk ==
    /\ ec # NoIterator
    /\ Len(ec_fed) < MaxChunks
    /\ \E n \in 0..(Len(data) - Total(ec_fed)) :
         LET c == SubSeq(data, Total(ec_fed) + 1, Total(ec_fed) + n)
             r == chunk(ec, c)
         IN /\ ec' = [permutation |-> r.permutation, i |-> r.i, j |-> r.j]
            /\ ec_fed' = Append(ec_fed, n)
            /\ ec_out' = ec_out \o r.ret
    /\ UNCHANGED <<encryption_key, obj_id, data, encrypted, decrypted>>
    /\ UNCHANGED <<wrapVars, tokVars, pos, winVars, xrefVars, derefVars,
                   textVars, parseVars, pagesVars, contentVars, cmapVars, processVars, loopVars, revVars, indVars>>

NextChunks == NewIterator \/ FeedChunk

(***************************************************************************)
(* The text processor (tool.py, lines 176-198)                             *)
(***************************************************************************)
\* the pages of a document and the elements of a page after its NewPage
MaxPages == 2
MaxElements == 2

\* the elements of the pages: the texts A and B and NewText
PageElements ==
    {Text(<<65>>, 0, 700, 10, 12, 0), Text(<<66>>, 10, 700, 10, 12, 0), NewText}

\* the element sequences of one page, of up to n elements
RECURSIVE ElementSeqs(_)
ElementSeqs(n) ==
    IF n = 0 THEN {<<>>}
    ELSE ElementSeqs(n - 1) \cup
         {Append(es, e) : es \in {c \in ElementSeqs(n - 1) : Len(c) = n - 1},
                          e \in PageElements}

\* TextExtractor.execute: each page gives NewPage and then its elements
RECURSIVE ElementStreams(_)
ElementStreams(p) ==
    IF p = 0 THEN {<<>>}
    ELSE {s \o <<NewPage>> \o es : s \in ElementStreams(p - 1),
                                   es \in ElementSeqs(MaxElements)}

\* the loop of process_texts reads its next element
InTexts == process_pc = "loop" /\ text_i < Len(texts)
Element == texts[text_i + 1]

\* a Text: it becomes cur_txt, or is joined to it
ProcessText ==
    /\ InTexts
    /\ Element.type = "Text"
    /\ text_i' = text_i + 1
    /\ cur_txt' =
         IF cur_txt = None THEN Some(Element)
         ELSE Some([cur_txt[1] EXCEPT
                       !.s = @ \o Element.s,
                       !.width = Element.x + Element.width - cur_txt[1].x])
    /\ UNCHANGED <<texts, txts, merged, process_pc>>
    /\ UNCHANGED <<wrapVars, tokVars, pos, winVars, xrefVars, derefVars,
                   textVars, parseVars, pagesVars, contentVars, cmapVars,
                   rc4Vars, loopVars, revVars, indVars>>

\* a NewText: cur_txt goes to txts
ProcessNewText ==
    /\ InTexts
    /\ Element.type = "NewText"
    /\ text_i' = text_i + 1
    /\ txts' = IF cur_txt # None THEN Append(txts, cur_txt[1]) ELSE txts
    /\ cur_txt' = None
    /\ UNCHANGED <<texts, merged, process_pc>>
    /\ UNCHANGED <<wrapVars, tokVars, pos, winVars, xrefVars, derefVars,
                   textVars, parseVars, pagesVars, contentVars, cmapVars,
                   rc4Vars, loopVars, revVars, indVars>>

\* a NewPage: cur_txt goes to txts, and txts, if not empty, to merge_texts
ProcessNewPage ==
    /\ InTexts
    /\ Element.type = "NewPage"
    /\ text_i' = text_i + 1
    /\ LET all == IF cur_txt # None THEN Append(txts, cur_txt[1]) ELSE txts
       IN merged' = IF all # <<>> THEN Append(merged, all) ELSE merged
    /\ cur_txt' = None
    /\ txts' = <<>>
    /\ UNCHANGED <<texts, process_pc>>
    /\ UNCHANGED <<wrapVars, tokVars, pos, winVars, xrefVars, derefVars,
                   textVars, parseVars, pagesVars, contentVars, cmapVars,
                   rc4Vars, loopVars, revVars, indVars>>

\* the elements are exhausted: process_texts returns
ProcessReturn ==
    /\ process_pc = "loop"
    /\ text_i = Len(texts)
    /\ process_pc' = "returned"
    /\ UNCHANGED <<texts, text_i, cur_txt, txts, merged>>
    /\ UNCHANGED <<wrapVars, tokVars, pos, winVars, xrefVars, derefVars,
                   textVars, parseVars, pagesVars, contentVars, cmapVars,
                   rc4Vars, loopVars, revVars, indVars>>

NextProcess == ProcessText \/ ProcessNewText \/ ProcessNewPage \/ ProcessReturn

(***************************************************************************)
(* The backward line reader and the trailer discovery (parser.py, lines    *)
(* 363-381 and 435-458)                                                    *)
(***************************************************************************)
\* the bytes of a file read backwards
MaxFile == 5

\* re.split(b"(\r|\n|\r\n)", buf), the pieces and the separators in turn: at
\* each byte the alternatives are tried in order, so a CR is matched by the
\* first and a LF by the second, and the third never matches
RECURSIVE SplitFrom(_, _, _)
SplitFrom(buf, k, piece) ==
    IF k > Len(buf) THEN <<piece>>
    ELSE IF buf[k] = CARRIAGE_RETURN \/ buf[k] = LINE_FEED
    THEN <<piece, <<buf[k]>>>> \o SplitFrom(buf, k + 1, <<>>)
    ELSE SplitFrom(buf, k + 1, Append(piece, buf[k]))

re_split(buf) == SplitFrom(buf, 1, <<>>)

\* b"".join(remainders)
RECURSIVE join(_)
join(bss) == IF bss = <<>> THEN <<>> ELSE Head(bss) \o join(Tail(bss))

\* the while loop on i: lines[i] is yielded for i = from, from - 2, ...
\* while i > 0 (lines is 0-based in the code)
RECURSIVE YieldDown(_, _)
YieldDown(lines, i) ==
    IF i > 0 THEN <<lines[i + 1]>> \o YieldDown(lines, i - 2) ELSE <<>>

\* a mistaken chunk: the remainders of the later chunks are put before the
\* last piece
M_Chunk(buf, rem) ==
    LET lines == re_split(buf)
    IN IF Len(lines) = 1
       THEN [yields |-> <<>>, remainders |-> <<lines[1]>> \o rem]
       ELSE [yields |-> <<join(rem) \o lines[Len(lines)]>>
                         \o YieldDown(lines, Len(lines) - 3),
             remainders |-> <<lines[1]>>]

\* reverse_reader, one chunk: the lines it yields and the remainders it
\* leaves
Chunk(buf, rem) ==
    LET lines == re_split(buf)
    IN IF Len(lines) = 1
       THEN [yields |-> <<>>, remainders |-> <<lines[1]>> \o rem]
       ELSE [yields |-> <<lines[Len(lines)] \o join(rem)>>
                         \o YieldDown(lines, Len(lines) - 3),
             remainders |-> <<lines[1]>>]

\* reverse_reader, one turn of the loop: the chunk before the position
RevChunk ==
    /\ rev_pc = "loop"
    /\ tell # 0
    /\ LET to_read == IF chunk_size < tell THEN chunk_size ELSE tell
           buf == SubSeq(file_bytes, tell - to_read + 1, tell)
           r == Chunk(buf, remainders)
       IN /\ tell' = tell - to_read
          /\ lines_out' = lines_out \o r.yields
          /\ remainders' = r.remainders
    /\ UNCHANGED <<file_bytes, chunk_size, rev_pc, found>>
    /\ UNCHANGED <<wrapVars, tokVars, pos, winVars, xrefVars, derefVars,
                   textVars, parseVars, pagesVars, contentVars, cmapVars,
                   rc4Vars, processVars, loopVars, indVars>>

\* reverse_reader at the start of the file: the remainders are the last line
RevLast ==
    /\ rev_pc = "loop"
    /\ tell = 0
    /\ lines_out' = Append(lines_out, join(remainders))
    /\ rev_pc' = "done"
    /\ UNCHANGED <<file_bytes, chunk_size, tell, remainders, found>>
    /\ UNCHANGED <<wrapVars, tokVars, pos, winVars, xrefVars, derefVars,
                   textVars, parseVars, pagesVars, contentVars, cmapVars,
                   rc4Vars, processVars, loopVars, indVars>>

NextReverse == RevChunk \/ RevLast

\* the files: up to n bytes out of CR, LF, a and z
RECURSIVE Files(_)
Files(n) ==
    IF n = 0 THEN {<<>>}
    ELSE Files(n - 1) \cup
         {Append(b, y) : b \in {c \in Files(n - 1) : Len(c) = n - 1},
                         y \in {CARRIAGE_RETURN, LINE_FEED, A_LOWER, Z_LOWER}}

\* the chunk sizes: small ones, and the one of the module
ChunkSizes == {1, 2, 3, BUF_SIZE}

\* the state before _find_start_xref has returned
NotFound == [exc |-> "pending", value |-> 0]

\* b"%%EOF" and b"startxref"
B_EOF == <<37, 37, 69, 79, 70>>
B_startxref == <<115, 116, 97, 114, 116, 120, 114, 101, 102>>

\* the lines of the trailers of the model: the keywords, an offset, a word
\* that is neither, and a comment of 30 bytes that pushes the trailer over
\* one chunk
B_offset == <<49, 50>>
B_other == <<Z_LOWER>>
B_comment == <<PERCENT_SIGN>> \o [k \in 1..29 |-> A_LOWER]

\* int(bs) raises ValueError unless bs is a number: of the lines above, the
\* decimal digits
IsInt(bs) == bs # <<>> /\ \A k \in 1..Len(bs) : bs[k] \in 48..57

\* the first non-empty line from k on, or one past the last line
RECURSIVE SkipBlank(_, _)
SkipBlank(ls, k) ==
    IF k > Len(ls) \/ ls[k] # <<>> THEN k ELSE SkipBlank(ls, k + 1)

\* PDFParser._find_start_xref on the lines the generator yields: next(it)
\* on the exhausted generator raises StopIteration
find_start_xref(ls) ==
    LET k == SkipBlank(ls, 1)
    IN IF k > Len(ls) THEN [exc |-> "StopIteration", value |-> 0]
       ELSE IF ls[k] # B_EOF THEN [exc |-> "ValueError", value |-> 0]
       ELSE IF k + 1 > Len(ls) THEN [exc |-> "StopIteration", value |-> 0]
       ELSE IF ~IsInt(ls[k + 1]) THEN [exc |-> "ValueError", value |-> 0]
       ELSE IF k + 2 > Len(ls) THEN [exc |-> "StopIteration", value |-> 0]
       ELSE IF ls[k + 2] # B_startxref
       THEN [exc |-> "ValueError", value |-> 0]
       ELSE [exc |-> "none", value |-> int(ls[k + 1])]

\* PDFParser._find_start_xref, on the lines of the generator
FindStartXref ==
    /\ rev_pc = "done"
    /\ found' = find_start_xref(lines_out)
    /\ rev_pc' = "found"
    /\ UNCHANGED <<file_bytes, chunk_size, tell, remainders, lines_out>>
    /\ UNCHANGED <<wrapVars, tokVars, pos, winVars, xrefVars, derefVars,
                   textVars, parseVars, pagesVars, contentVars, cmapVars,
                   rc4Vars, processVars, loopVars, indVars>>

NextTrailer == RevChunk \/ RevLast \/ FindStartXref

\* the line terminators
Terminators == {<<LINE_FEED>>, <<CARRIAGE_RETURN>>,
                <<CARRIAGE_RETURN, LINE_FEED>>}

\* n times the terminator t
RECURSIVE Blank(_, _)
Blank(t, n) == IF n = 0 THEN <<>> ELSE t \o Blank(t, n - 1)

\* the trailing terminators of a file: none, the one of the last line, and
\* the blank lines after it
MaxBlank == 2

\* a file: a head, three lines with the terminator t, and n terminators
\* after the last line
TrailerFile(head, t, ls, n) ==
    head \o ls[1] \o t \o ls[2] \o t \o ls[3] \o Blank(t, n)

TrailerLines == {B_startxref, B_offset, B_EOF, B_other}

(***************************************************************************)
(* An indirect object read from the bytes of a file (parser.py, lines      *)
(* 170-210 and 389-432)                                                    *)
(***************************************************************************)
\* b"1 0 obj", b"7", b"<</Length 2>>", b"stream", b"endstream", b"endobj",
\* and a payload of two bytes
B_obj == <<49, 32, 48, 32, 111, 98, 106>>
B_number == <<55>>
B_dict == <<60, 60, 47, 76, 101, 110, 103, 116, 104, 32, 50, 62, 62>>
B_stream == <<115, 116, 114, 101, 97, 109>>
B_endstream == <<101, 110, 100, 115, 116, 114, 101, 97, 109>>
B_endobj == <<101, 110, 100, 111, 98, 106>>
B_payload == <<A_LOWER, Z_LOWER>>

\* PDFParser.readline from position p (0-based): the line and the position
\* after it; a CR sets cr, and the first byte that is neither CR nor LF after
\* it is put back
RECURSIVE ReadLineFrom(_, _, _, _)
ReadLineFrom(bs, p, cr, cs) ==
    IF p >= Len(bs) THEN [line |-> cs, tell |-> p]
    ELSE LET c == bs[p + 1]
         IN IF c = LINE_FEED THEN [line |-> cs, tell |-> p + 1]
            ELSE IF c = CARRIAGE_RETURN THEN ReadLineFrom(bs, p + 1, TRUE, cs)
            ELSE IF cr THEN [line |-> cs, tell |-> p]
            ELSE ReadLineFrom(bs, p + 1, FALSE, Append(cs, c))

\* PDFParser.readline
readline(bs, p) == ReadLineFrom(bs, p, FALSE, <<>>)

\* bs holds the bytes w from position p on
HasAt(bs, p, w) ==
    p + Len(w) <= Len(bs) /\ SubSeq(bs, p + 1, p + Len(w)) = w

\* PDFParser.read_object on the objects of the model, with the position the
\* tokenizer leaves the stream at: the bytes of a number and the byte after
\* them, which DigitState ungets in the wrapper only; the bytes of a
\* dictionary up to its >>, on which CloseDictState returns the token
read_object_at(bs, p) ==
    IF HasAt(bs, p, B_dict)
    THEN [obj |-> [type |-> "Dict", value |-> 2], tell |-> p + Len(B_dict)]
    ELSE [obj |-> [type |-> "Number", value |-> 7],
          tell |-> IF p + Len(B_number) + 1 <= Len(bs)
                   THEN p + Len(B_number) + 1 ELSE Len(bs)]

\* read_indirect_object, lines 174-176: the line of `obj`, then the object
ReadObject ==
    /\ io_pc = "start"
    /\ LET l == readline(io_bytes, io_tell)
           r == read_object_at(io_bytes, l.tell)
       IN /\ io_obj' = r.obj
          /\ io_tell' = r.tell
    /\ io_pc' = "object"
    /\ UNCHANGED <<io_bytes, io_word, io_ret>>
    /\ UNCHANGED <<wrapVars, tokVars, pos, winVars, xrefVars, derefVars,
                   textVars, parseVars, pagesVars, contentVars, cmapVars,
                   rc4Vars, processVars, loopVars, revVars>>

\* _read_endobj_word: a line, and one more if the first is empty
read_endobj_word(bs, p) ==
    LET l == readline(bs, p)
    IN IF l.line = <<>> THEN readline(bs, l.tell) ELSE l

\* read_indirect_object, line 177
ReadEndobjWord ==
    /\ io_pc = "object"
    /\ LET l == read_endobj_word(io_bytes, io_tell)
       IN /\ io_word' = l.line
          /\ io_tell' = l.tell
    /\ io_pc' = "word"
    /\ UNCHANGED <<io_bytes, io_obj, io_ret>>
    /\ UNCHANGED <<wrapVars, tokVars, pos, winVars, xrefVars, derefVars,
                   textVars, parseVars, pagesVars, contentVars, cmapVars,
                   rc4Vars, processVars, loopVars, revVars>>

\* _read_stream on a dictionary with a direct /Length: the position after
\* `endobj`, or none when a check fails
read_stream_at(bs, start, length) ==
    LET l1 == readline(bs, start + length)
        end_stream_word == IF l1.line = <<>> THEN readline(bs, l1.tell)
                           ELSE l1
        endobj_word == readline(bs, end_stream_word.tell)
    IN IF end_stream_word.line # B_endstream THEN [exc |-> "Exception", tell |-> end_stream_word.tell]
       ELSE IF endobj_word.line # B_endobj THEN [exc |-> "Exception", tell |-> endobj_word.tell]
       ELSE [exc |-> "none", tell |-> endobj_word.tell]

\* read_indirect_object, lines 178-180: the word is `stream`
ReadStream ==
    /\ io_pc = "word"
    /\ io_word = B_stream
    /\ IF io_obj.type # "Dict"
       THEN /\ io_pc' = "raised"
            /\ UNCHANGED <<io_tell, io_ret>>
       ELSE LET s == read_stream_at(io_bytes, io_tell, io_obj.value)
            IN /\ io_tell' = s.tell
               /\ IF s.exc # "none"
                  THEN io_pc' = "raised" /\ UNCHANGED io_ret
                  ELSE /\ io_pc' = "returned"
                       /\ io_ret' = [type |-> "StreamObject", value |-> io_tell]
    /\ UNCHANGED <<io_bytes, io_obj, io_word>>
    /\ UNCHANGED <<wrapVars, tokVars, pos, winVars, xrefVars, derefVars,
                   textVars, parseVars, pagesVars, contentVars, cmapVars,
                   rc4Vars, processVars, loopVars, revVars>>

\* read_indirect_object, lines 181-184: the word is `endobj`, or the raise
ReadEndobj ==
    /\ io_pc = "word"
    /\ io_word # B_stream
    /\ IF io_word = B_endobj
       THEN /\ io_pc' = "returned"
            /\ io_ret' = [type |-> "IndirectObject", value |-> io_obj.value]
       ELSE /\ io_pc' = "raised"
            /\ UNCHANGED io_ret
    /\ UNCHANGED <<io_bytes, io_tell, io_obj, io_word>>
    /\ UNCHANGED <<wrapVars, tokVars, pos, winVars, xrefVars, derefVars,
                   textVars, parseVars, pagesVars, contentVars, cmapVars,
                   rc4Vars, processVars, loopVars, revVars>>

NextIndirect == ReadObject \/ ReadEndobjWord \/ ReadStream \/ ReadEndobj

\* a file: the line of `obj`, the object and its end of line, b1 blank
\* lines, and `endobj`; or `stream`, the payload and its end of line, b2
\* blank lines, `endstream`, b3 blank lines and `endobj`
ObjectFile(t, object, is_stream, b1, b2, b3) ==
    B_obj \o t \o object \o t \o
    (IF is_stream
     THEN B_stream \o t \o B_payload \o t \o Blank(t, b2) \o B_endstream \o t
          \o Blank(t, b3) \o B_endobj \o t
     ELSE Blank(t, b1) \o B_endobj \o t)

ObjectFiles ==
    UNION {{ObjectFile(t, o, FALSE, b1, 0, 0) : o \in {B_number, B_dict}, b1 \in 0..MaxBlank}
           \cup {ObjectFile(t, o, TRUE, 0, b2, b3) : o \in {B_number, B_dict},
                     b2 \in 0..MaxBlank, b3 \in 0..MaxBlank} : t \in Terminators}

(***************************************************************************)
(* The specifications                                                      *)
(***************************************************************************)
\* a wrapper and a tokenizer on a new stream
InitWrap ==
    /\ input = <<>>
    /\ eof = FALSE
    /\ sw_prev = NoPrev
    /\ sw_unget = FALSE
    /\ hist = <<>>
    /\ state = StartState
    /\ tokens = <<>>
    /\ err = "none"
    /\ pos = 0
    /\ stream_obj = NoStreamObject
    /\ win_pc = "idle"
    /\ win_i = 0
    /\ chunks = <<>>
    /\ xref_file = EmptyTable
    /\ startxref = 0
    /\ xref_table = EmptyTable
    /\ trailer_dict = NoTrailer
    /\ xref_pc = "idle"
    /\ objects = EmptyTable
    /\ obj_by_num = EmptyTable
    /\ offsets = <<>>
    /\ last = NoCall
    /\ first = EmptyTable
    /\ crashed = FALSE
    /\ text_state = TextState
    /\ font_by_ref = EmptyTable
    /\ font = DefaultFont
    /\ elements = <<>>
    /\ page = NoPage
    /\ ops = NoOps
    /\ stack = <<>>
    /\ parsed = <<>>
    /\ returned = NoObject
    /\ parse_exc = "none"
    /\ page_tree = NoTree
    /\ kid_stack = <<>>
    /\ yielded = <<>>
    /\ pages_pc = "idle"
    /\ queue = <<>>
    /\ operations = <<>>
    /\ content_exc = "none"
    /\ cmap_tokens = <<>>
    /\ cmap_i = 0
    /\ cmap_stack = <<>>
    /\ fchar_count = 0
    /\ cmap_encoding = EmptyTable
    /\ cmap_pc = "idle"
    /\ encryption_key = <<>>
    /\ obj_id = <<0, 0>>
    /\ data = <<>>
    /\ encrypted = None
    /\ decrypted = None
    /\ ec = NoIterator
    /\ ec_fed = <<>>
    /\ ec_out = <<>>
    /\ texts = <<>>
    /\ text_i = 0
    /\ cur_txt = None
    /\ txts = <<>>
    /\ merged = <<>>
    /\ process_pc = "idle"
    /\ xref_turns = 0
    /\ file_bytes = <<>>
    /\ chunk_size = BUF_SIZE
    /\ tell = 0
    /\ remainders = <<>>
    /\ lines_out = <<>>
    /\ rev_pc = "idle"
    /\ found = NotFound
    /\ io_bytes = <<>>
    /\ io_tell = 0
    /\ io_obj = NoObject
    /\ io_word = <<>>
    /\ io_pc = "idle"
    /\ io_ret = NoObject

\* a stream object of any length up to MaxLength has been read
InitWin ==
    /\ input = <<>>
    /\ eof = FALSE
    /\ sw_prev = NoPrev
    /\ sw_unget = FALSE
    /\ hist = <<>>
    /\ state = StartState
    /\ tokens = <<>>
    /\ err = "none"
    /\ pos \in ClientPositions
    /\ stream_obj \in [start : StreamStarts, length : 0..MaxLength]
    /\ win_pc = "start"
    /\ win_i = 0
    /\ chunks = <<>>
    /\ xref_file = EmptyTable
    /\ startxref = 0
    /\ xref_table = EmptyTable
    /\ trailer_dict = NoTrailer
    /\ xref_pc = "idle"
    /\ objects = EmptyTable
    /\ obj_by_num = EmptyTable
    /\ offsets = <<>>
    /\ last = NoCall
    /\ first = EmptyTable
    /\ crashed = FALSE
    /\ text_state = TextState
    /\ font_by_ref = EmptyTable
    /\ font = DefaultFont
    /\ elements = <<>>
    /\ page = NoPage
    /\ ops = NoOps
    /\ stack = <<>>
    /\ parsed = <<>>
    /\ returned = NoObject
    /\ parse_exc = "none"
    /\ page_tree = NoTree
    /\ kid_stack = <<>>
    /\ yielded = <<>>
    /\ pages_pc = "idle"
    /\ queue = <<>>
    /\ operations = <<>>
    /\ content_exc = "none"
    /\ cmap_tokens = <<>>
    /\ cmap_i = 0
    /\ cmap_stack = <<>>
    /\ fchar_count = 0
    /\ cmap_encoding = EmptyTable
    /\ cmap_pc = "idle"
    /\ encryption_key = <<>>
    /\ obj_id = <<0, 0>>
    /\ data = <<>>
    /\ encrypted = None
    /\ decrypted = None
    /\ ec = NoIterator
    /\ ec_fed = <<>>
    /\ ec_out = <<>>
    /\ texts = <<>>
    /\ text_i = 0
    /\ cur_txt = None
    /\ txts = <<>>
    /\ merged = <<>>
    /\ process_pc = "idle"
    /\ xref_turns = 0
    /\ file_bytes = <<>>
    /\ chunk_size = BUF_SIZE
    /\ tell = 0
    /\ remainders = <<>>
    /\ lines_out = <<>>
    /\ rev_pc = "idle"
    /\ found = NotFound
    /\ io_bytes = <<>>
    /\ io_tell = 0
    /\ io_obj = NoObject
    /\ io_word = <<>>
    /\ io_pc = "idle"
    /\ io_ret = NoObject

\* a file with NSections xref sections; startxref names one of them
InitXref ==
    /\ input = <<>>
    /\ eof = FALSE
    /\ sw_prev = NoPrev
    /\ sw_unget = FALSE
    /\ hist = <<>>
    /\ state = StartState
    /\ tokens = <<>>
    /\ err = "none"
    /\ pos = 0
    /\ stream_obj = NoStreamObject
    /\ win_pc = "idle"
    /\ win_i = 0
    /\ chunks = <<>>
    /\ xref_file \in [SectionOffsets -> Sections]
    /\ startxref \in SectionOffsets
    /\ xref_table = EmptyTable
    /\ trailer_dict = NoTrailer
    /\ xref_pc = "start"
    /\ objects = EmptyTable
    /\ obj_by_num = EmptyTable
    /\ offsets = <<>>
    /\ last = NoCall
    /\ first = EmptyTable
    /\ crashed = FALSE
    /\ text_state = TextState
    /\ font_by_ref = EmptyTable
    /\ font = DefaultFont
    /\ elements = <<>>
    /\ page = NoPage
    /\ ops = NoOps
    /\ stack = <<>>
    /\ parsed = <<>>
    /\ returned = NoObject
    /\ parse_exc = "none"
    /\ page_tree = NoTree
    /\ kid_stack = <<>>
    /\ yielded = <<>>
    /\ pages_pc = "idle"
    /\ queue = <<>>
    /\ operations = <<>>
    /\ content_exc = "none"
    /\ cmap_tokens = <<>>
    /\ cmap_i = 0
    /\ cmap_stack = <<>>
    /\ fchar_count = 0
    /\ cmap_encoding = EmptyTable
    /\ cmap_pc = "idle"
    /\ encryption_key = <<>>
    /\ obj_id = <<0, 0>>
    /\ data = <<>>
    /\ encrypted = None
    /\ decrypted = None
    /\ ec = NoIterator
    /\ ec_fed = <<>>
    /\ ec_out = <<>>
    /\ texts = <<>>
    /\ text_i = 0
    /\ cur_txt = None
    /\ txts = <<>>
    /\ merged = <<>>
    /\ process_pc = "idle"
    /\ xref_turns = 0
    /\ file_bytes = <<>>
    /\ chunk_size = BUF_SIZE
    /\ tell = 0
    /\ remainders = <<>>
    /\ lines_out = <<>>
    /\ rev_pc = "idle"
    /\ found = NotFound
    /\ io_bytes = <<>>
    /\ io_tell = 0
    /\ io_obj = NoObject
    /\ io_word = <<>>
    /\ io_pc = "idle"
    /\ io_ret = NoObject

\* a document (PDFDocument.__init__) on a file of NObjects objects; the
\* xref table has an entry for every object the file holds
InitDeref ==
    /\ input = <<>>
    /\ eof = FALSE
    /\ sw_prev = NoPrev
    /\ sw_unget = FALSE
    /\ hist = <<>>
    /\ state = StartState
    /\ tokens = <<>>
    /\ err = "none"
    /\ pos \in ClientPositions
    /\ stream_obj = NoStreamObject
    /\ win_pc = "idle"
    /\ win_i = 0
    /\ chunks = <<>>
    /\ xref_file = EmptyTable
    /\ startxref = 0
    /\ objects \in [ObjNumbers -> ObjectKinds]
    /\ xref_table = [n \in {m \in ObjNumbers : objects[m].kind # "missing"} |->
                        XrefEntry(Off(n), 0, "n")]
    /\ trailer_dict = NoTrailer
    /\ xref_pc = "idle"
    /\ obj_by_num = EmptyTable
    /\ offsets = <<>>
    /\ last = NoCall
    /\ first = EmptyTable
    /\ crashed = FALSE
    /\ text_state = TextState
    /\ font_by_ref = EmptyTable
    /\ font = DefaultFont
    /\ elements = <<>>
    /\ page = NoPage
    /\ ops = NoOps
    /\ stack = <<>>
    /\ parsed = <<>>
    /\ returned = NoObject
    /\ parse_exc = "none"
    /\ page_tree = NoTree
    /\ kid_stack = <<>>
    /\ yielded = <<>>
    /\ pages_pc = "idle"
    /\ queue = <<>>
    /\ operations = <<>>
    /\ content_exc = "none"
    /\ cmap_tokens = <<>>
    /\ cmap_i = 0
    /\ cmap_stack = <<>>
    /\ fchar_count = 0
    /\ cmap_encoding = EmptyTable
    /\ cmap_pc = "idle"
    /\ encryption_key = <<>>
    /\ obj_id = <<0, 0>>
    /\ data = <<>>
    /\ encrypted = None
    /\ decrypted = None
    /\ ec = NoIterator
    /\ ec_fed = <<>>
    /\ ec_out = <<>>
    /\ texts = <<>>
    /\ text_i = 0
    /\ cur_txt = None
    /\ txts = <<>>
    /\ merged = <<>>
    /\ process_pc = "idle"
    /\ xref_turns = 0
    /\ file_bytes = <<>>
    /\ chunk_size = BUF_SIZE
    /\ tell = 0
    /\ remainders = <<>>
    /\ lines_out = <<>>
    /\ rev_pc = "idle"
    /\ found = NotFound
    /\ io_bytes = <<>>
    /\ io_tell = 0
    /\ io_obj = NoObject
    /\ io_word = <<>>
    /\ io_pc = "idle"
    /\ io_ret = NoObject

\* a text extractor (TextExtractor.__init__) on a document
InitText ==
    /\ input = <<>>
    /\ eof = FALSE
    /\ sw_prev = NoPrev
    /\ sw_unget = FALSE
    /\ hist = <<>>
    /\ state = StartState
    /\ tokens = <<>>
    /\ err = "none"
    /\ pos = 0
    /\ stream_obj = NoStreamObject
    /\ win_pc = "idle"
    /\ win_i = 0
    /\ chunks = <<>>
    /\ xref_file = EmptyTable
    /\ startxref = 0
    /\ xref_table = EmptyTable
    /\ trailer_dict = NoTrailer
    /\ xref_pc = "idle"
    /\ objects = EmptyTable
    /\ obj_by_num = EmptyTable
    /\ offsets = <<>>
    /\ last = NoCall
    /\ first = EmptyTable
    /\ crashed = FALSE
    /\ text_state = TextState
    /\ font_by_ref = EmptyTable
    /\ font = DefaultFont
    /\ elements = <<>>
    /\ page = NoPage
    /\ ops = NoOps
    /\ stack = <<>>
    /\ parsed = <<>>
    /\ returned = NoObject
    /\ parse_exc = "none"
    /\ page_tree = NoTree
    /\ kid_stack = <<>>
    /\ yielded = <<>>
    /\ pages_pc = "idle"
    /\ queue = <<>>
    /\ operations = <<>>
    /\ content_exc = "none"
    /\ cmap_tokens = <<>>
    /\ cmap_i = 0
    /\ cmap_stack = <<>>
    /\ fchar_count = 0
    /\ cmap_encoding = EmptyTable
    /\ cmap_pc = "idle"
    /\ encryption_key = <<>>
    /\ obj_id = <<0, 0>>
    /\ data = <<>>
    /\ encrypted = None
    /\ decrypted = None
    /\ ec = NoIterator
    /\ ec_fed = <<>>
    /\ ec_out = <<>>
    /\ texts = <<>>
    /\ text_i = 0
    /\ cur_txt = None
    /\ txts = <<>>
    /\ merged = <<>>
    /\ process_pc = "idle"
    /\ xref_turns = 0
    /\ file_bytes = <<>>
    /\ chunk_size = BUF_SIZE
    /\ tell = 0
    /\ remainders = <<>>
    /\ lines_out = <<>>
    /\ rev_pc = "idle"
    /\ found = NotFound
    /\ io_bytes = <<>>
    /\ io_tell = 0
    /\ io_obj = NoObject
    /\ io_word = <<>>
    /\ io_pc = "idle"
    /\ io_ret = NoObject

InitPages ==
    /\ input = <<>>
    /\ eof = FALSE
    /\ sw_prev = NoPrev
    /\ sw_unget = FALSE
    /\ hist = <<>>
    /\ state = StartState
    /\ tokens = <<>>
    /\ err = "none"
    /\ pos = 0
    /\ stream_obj = NoStreamObject
    /\ win_pc = "idle"
    /\ win_i = 0
    /\ chunks = <<>>
    /\ xref_file = EmptyTable
    /\ startxref = 0
    /\ xref_table = EmptyTable
    /\ trailer_dict = NoTrailer
    /\ xref_pc = "idle"
    /\ objects = EmptyTable
    /\ obj_by_num = EmptyTable
    /\ offsets = <<>>
    /\ last = NoCall
    /\ first = EmptyTable
    /\ crashed = FALSE
    /\ text_state = TextState
    /\ font_by_ref = EmptyTable
    /\ font = DefaultFont
    /\ elements = <<>>
    /\ page = NoPage
    /\ ops = NoOps
    /\ stack = <<>>
    /\ parsed = <<>>
    /\ returned = NoObject
    /\ parse_exc = "none"
    /\ page_tree \in PageTrees
    /\ kid_stack = <<>>
    /\ yielded = <<>>
    /\ pages_pc = "idle"
    /\ queue = <<>>
    /\ operations = <<>>
    /\ content_exc = "none"
    /\ cmap_tokens = <<>>
    /\ cmap_i = 0
    /\ cmap_stack = <<>>
    /\ fchar_count = 0
    /\ cmap_encoding = EmptyTable
    /\ cmap_pc = "idle"
    /\ encryption_key = <<>>
    /\ obj_id = <<0, 0>>
    /\ data = <<>>
    /\ encrypted = None
    /\ decrypted = None
    /\ ec = NoIterator
    /\ ec_fed = <<>>
    /\ ec_out = <<>>
    /\ texts = <<>>
    /\ text_i = 0
    /\ cur_txt = None
    /\ txts = <<>>
    /\ merged = <<>>
    /\ process_pc = "idle"
    /\ xref_turns = 0
    /\ file_bytes = <<>>
    /\ chunk_size = BUF_SIZE
    /\ tell = 0
    /\ remainders = <<>>
    /\ lines_out = <<>>
    /\ rev_pc = "idle"
    /\ found = NotFound
    /\ io_bytes = <<>>
    /\ io_tell = 0
    /\ io_obj = NoObject
    /\ io_word = <<>>
    /\ io_pc = "idle"
    /\ io_ret = NoObject

\* parse_to_unicode on the tokens of a ToUnicode stream
InitCMap ==
    /\ input = <<>>
    /\ eof = FALSE
    /\ sw_prev = NoPrev
    /\ sw_unget = FALSE
    /\ hist = <<>>
    /\ state = StartState
    /\ tokens = <<>>
    /\ err = "none"
    /\ pos = 0
    /\ stream_obj = NoStreamObject
    /\ win_pc = "idle"
    /\ win_i = 0
    /\ chunks = <<>>
    /\ xref_file = EmptyTable
    /\ startxref = 0
    /\ xref_table = EmptyTable
    /\ trailer_dict = NoTrailer
    /\ xref_pc = "idle"
    /\ objects = EmptyTable
    /\ obj_by_num = EmptyTable
    /\ offsets = <<>>
    /\ last = NoCall
    /\ first = EmptyTable
    /\ crashed = FALSE
    /\ text_state = TextState
    /\ font_by_ref = EmptyTable
    /\ font = DefaultFont
    /\ elements = <<>>
    /\ page = NoPage
    /\ ops = NoOps
    /\ stack = <<>>
    /\ parsed = <<>>
    /\ returned = NoObject
    /\ parse_exc = "none"
    /\ page_tree = NoTree
    /\ kid_stack = <<>>
    /\ yielded = <<>>
    /\ pages_pc = "idle"
    /\ queue = <<>>
    /\ operations = <<>>
    /\ content_exc = "none"
    /\ cmap_tokens \in CMapStreams
    /\ cmap_i = 0
    /\ cmap_stack = <<>>
    /\ fchar_count = 0
    /\ cmap_encoding = EmptyTable
    /\ cmap_pc = "loop"
    /\ encryption_key = <<>>
    /\ obj_id = <<0, 0>>
    /\ data = <<>>
    /\ encrypted = None
    /\ decrypted = None
    /\ ec = NoIterator
    /\ ec_fed = <<>>
    /\ ec_out = <<>>
    /\ texts = <<>>
    /\ text_i = 0
    /\ cur_txt = None
    /\ txts = <<>>
    /\ merged = <<>>
    /\ process_pc = "idle"
    /\ xref_turns = 0
    /\ file_bytes = <<>>
    /\ chunk_size = BUF_SIZE
    /\ tell = 0
    /\ remainders = <<>>
    /\ lines_out = <<>>
    /\ rev_pc = "idle"
    /\ found = NotFound
    /\ io_bytes = <<>>
    /\ io_tell = 0
    /\ io_obj = NoObject
    /\ io_word = <<>>
    /\ io_pc = "idle"
    /\ io_ret = NoObject

\* an encrypter, an object identifier and a buffer
InitRC4 ==
    /\ input = <<>>
    /\ eof = FALSE
    /\ sw_prev = NoPrev
    /\ sw_unget = FALSE
    /\ hist = <<>>
    /\ state = StartState
    /\ tokens = <<>>
    /\ err = "none"
    /\ pos = 0
    /\ stream_obj = NoStreamObject
    /\ win_pc = "idle"
    /\ win_i = 0
    /\ chunks = <<>>
    /\ xref_file = EmptyTable
    /\ startxref = 0
    /\ xref_table = EmptyTable
    /\ trailer_dict = NoTrailer
    /\ xref_pc = "idle"
    /\ objects = EmptyTable
    /\ obj_by_num = EmptyTable
    /\ offsets = <<>>
    /\ last = NoCall
    /\ first = EmptyTable
    /\ crashed = FALSE
    /\ text_state = TextState
    /\ font_by_ref = EmptyTable
    /\ font = DefaultFont
    /\ elements = <<>>
    /\ page = NoPage
    /\ ops = NoOps
    /\ stack = <<>>
    /\ parsed = <<>>
    /\ returned = NoObject
    /\ parse_exc = "none"
    /\ page_tree = NoTree
    /\ kid_stack = <<>>
    /\ yielded = <<>>
    /\ pages_pc = "idle"
    /\ queue = <<>>
    /\ operations = <<>>
    /\ content_exc = "none"
    /\ cmap_tokens = <<>>
    /\ cmap_i = 0
    /\ cmap_stack = <<>>
    /\ fchar_count = 0
    /\ cmap_encoding = EmptyTable
    /\ cmap_pc = "idle"
    /\ encryption_key \in FileKeys
    /\ obj_id \in ObjIds
    /\ data \in Buffers(MaxData)
    /\ encrypted = None
    /\ decrypted = None
    /\ ec = NoIterator
    /\ ec_fed = <<>>
    /\ ec_out = <<>>
    /\ texts = <<>>
    /\ text_i = 0
    /\ cur_txt = None
    /\ txts = <<>>
    /\ merged = <<>>
    /\ process_pc = "idle"
    /\ xref_turns = 0
    /\ file_bytes = <<>>
    /\ chunk_size = BUF_SIZE
    /\ tell = 0
    /\ remainders = <<>>
    /\ lines_out = <<>>
    /\ rev_pc = "idle"
    /\ found = NotFound
    /\ io_bytes = <<>>
    /\ io_tell = 0
    /\ io_obj = NoObject
    /\ io_word = <<>>
    /\ io_pc = "idle"
    /\ io_ret = NoObject

\* process_texts on the elements of a document
InitProcess ==
    /\ input = <<>>
    /\ eof = FALSE
    /\ sw_prev = NoPrev
    /\ sw_unget = FALSE
    /\ hist = <<>>
    /\ state = StartState
    /\ tokens = <<>>
    /\ err = "none"
    /\ pos = 0
    /\ stream_obj = NoStreamObject
    /\ win_pc = "idle"
    /\ win_i = 0
    /\ chunks = <<>>
    /\ xref_file = EmptyTable
    /\ startxref = 0
    /\ xref_table = EmptyTable
    /\ trailer_dict = NoTrailer
    /\ xref_pc = "idle"
    /\ objects = EmptyTable
    /\ obj_by_num = EmptyTable
    /\ offsets = <<>>
    /\ last = NoCall
    /\ first = EmptyTable
    /\ crashed = FALSE
    /\ text_state = TextState
    /\ font_by_ref = EmptyTable
    /\ font = DefaultFont
    /\ elements = <<>>
    /\ page = NoPage
    /\ ops = NoOps
    /\ stack = <<>>
    /\ parsed = <<>>
    /\ returned = NoObject
    /\ parse_exc = "none"
    /\ page_tree = NoTree
    /\ kid_stack = <<>>
    /\ yielded = <<>>
    /\ pages_pc = "idle"
    /\ queue = <<>>
    /\ operations = <<>>
    /\ content_exc = "none"
    /\ cmap_tokens = <<>>
    /\ cmap_i = 0
    /\ cmap_stack = <<>>
    /\ fchar_count = 0
    /\ cmap_encoding = EmptyTable
    /\ cmap_pc = "idle"
    /\ encryption_key = <<>>
    /\ obj_id = <<0, 0>>
    /\ data = <<>>
    /\ encrypted = None
    /\ decrypted = None
    /\ ec = NoIterator
    /\ ec_fed = <<>>
    /\ ec_out = <<>>
    /\ texts \in UNION {ElementStreams(p) : p \in 1..MaxPages}
    /\ text_i = 0
    /\ cur_txt = None
    /\ txts = <<>>
    /\ merged = <<>>
    /\ process_pc = "loop"
    /\ xref_turns = 0
    /\ file_bytes = <<>>
    /\ chunk_size = BUF_SIZE
    /\ tell = 0
    /\ remainders = <<>>
    /\ lines_out = <<>>
    /\ rev_pc = "idle"
    /\ found = NotFound
    /\ io_bytes = <<>>
    /\ io_tell = 0
    /\ io_obj = NoObject
    /\ io_word = <<>>
    /\ io_pc = "idle"
    /\ io_ret = NoObject

\* a file of a few bytes, read backwards by chunks of some size
InitReverse ==
    /\ input = <<>>
    /\ eof = FALSE
    /\ sw_prev = NoPrev
    /\ sw_unget = FALSE
    /\ hist = <<>>
    /\ state = StartState
    /\ tokens = <<>>
    /\ err = "none"
    /\ pos = 0
    /\ stream_obj = NoStreamObject
    /\ win_pc = "idle"
    /\ win_i = 0
    /\ chunks = <<>>
    /\ xref_file = EmptyTable
    /\ startxref = 0
    /\ xref_table = EmptyTable
    /\ trailer_dict = NoTrailer
    /\ xref_pc = "idle"
    /\ objects = EmptyTable
    /\ obj_by_num = EmptyTable
    /\ offsets = <<>>
    /\ last = NoCall
    /\ first = EmptyTable
    /\ crashed = FALSE
    /\ text_state = TextState
    /\ font_by_ref = EmptyTable
    /\ font = DefaultFont
    /\ elements = <<>>
    /\ page = NoPage
    /\ ops = NoOps
    /\ stack = <<>>
    /\ parsed = <<>>
    /\ returned = NoObject
    /\ parse_exc = "none"
    /\ page_tree = NoTree
    /\ kid_stack = <<>>
    /\ yielded = <<>>
    /\ pages_pc = "idle"
    /\ queue = <<>>
    /\ operations = <<>>
    /\ content_exc = "none"
    /\ cmap_tokens = <<>>
    /\ cmap_i = 0
    /\ cmap_stack = <<>>
    /\ fchar_count = 0
    /\ cmap_encoding = EmptyTable
    /\ cmap_pc = "idle"
    /\ encryption_key = <<>>
    /\ obj_id = <<0, 0>>
    /\ data = <<>>
    /\ encrypted = None
    /\ decrypted = None
    /\ ec = NoIterator
    /\ ec_fed = <<>>
    /\ ec_out = <<>>
    /\ texts = <<>>
    /\ text_i = 0
    /\ cur_txt = None
    /\ txts = <<>>
    /\ merged = <<>>
    /\ process_pc = "idle"
    /\ xref_turns = 0
    /\ file_bytes \in Files(MaxFile)
    /\ chunk_size \in ChunkSizes
    /\ tell = Len(file_bytes)
    /\ remainders = <<>>
    /\ lines_out = <<>>
    /\ rev_pc = "loop"
    /\ found = NotFound
    /\ io_bytes = <<>>
    /\ io_tell = 0
    /\ io_obj = NoObject
    /\ io_word = <<>>
    /\ io_pc = "idle"
    /\ io_ret = NoObject

\* a file that ends with three lines, read backwards by the chunks of the module
InitTrailer ==
    /\ input = <<>>
    /\ eof = FALSE
    /\ sw_prev = NoPrev
    /\ sw_unget = FALSE
    /\ hist = <<>>
    /\ state = StartState
    /\ tokens = <<>>
    /\ err = "none"
    /\ pos = 0
    /\ stream_obj = NoStreamObject
    /\ win_pc = "idle"
    /\ win_i = 0
    /\ chunks = <<>>
    /\ xref_file = EmptyTable
    /\ startxref = 0
    /\ xref_table = EmptyTable
    /\ trailer_dict = NoTrailer
    /\ xref_pc = "idle"
    /\ objects = EmptyTable
    /\ obj_by_num = EmptyTable
    /\ offsets = <<>>
    /\ last = NoCall
    /\ first = EmptyTable
    /\ crashed = FALSE
    /\ text_state = TextState
    /\ font_by_ref = EmptyTable
    /\ font = DefaultFont
    /\ elements = <<>>
    /\ page = NoPage
    /\ ops = NoOps
    /\ stack = <<>>
    /\ parsed = <<>>
    /\ returned = NoObject
    /\ parse_exc = "none"
    /\ page_tree = NoTree
    /\ kid_stack = <<>>
    /\ yielded = <<>>
    /\ pages_pc = "idle"
    /\ queue = <<>>
    /\ operations = <<>>
    /\ content_exc = "none"
    /\ cmap_tokens = <<>>
    /\ cmap_i = 0
    /\ cmap_stack = <<>>
    /\ fchar_count = 0
    /\ cmap_encoding = EmptyTable
    /\ cmap_pc = "idle"
    /\ encryption_key = <<>>
    /\ obj_id = <<0, 0>>
    /\ data = <<>>
    /\ encrypted = None
    /\ decrypted = None
    /\ ec = NoIterator
    /\ ec_fed = <<>>
    /\ ec_out = <<>>
    /\ texts = <<>>
    /\ text_i = 0
    /\ cur_txt = None
    /\ txts = <<>>
    /\ merged = <<>>
    /\ process_pc = "idle"
    /\ xref_turns = 0
    /\ file_bytes \in UNION {{TrailerFile(head, t, ls, n) :
                         head \in {<<>>, B_comment \o t},
                         ls \in [1..3 -> TrailerLines],
                         n \in 0..MaxBlank} : t \in Terminators}
    /\ chunk_size = BUF_SIZE
    /\ tell = Len(file_bytes)
    /\ remainders = <<>>
    /\ lines_out = <<>>
    /\ rev_pc = "loop"
    /\ found = NotFound
    /\ io_bytes = <<>>
    /\ io_tell = 0
    /\ io_obj = NoObject
    /\ io_word = <<>>
    /\ io_pc = "idle"
    /\ io_ret = NoObject

\* an indirect object in a file, about to be read
InitIndirect ==
    /\ input = <<>>
    /\ eof = FALSE
    /\ sw_prev = NoPrev
    /\ sw_unget = FALSE
    /\ hist = <<>>
    /\ state = StartState
    /\ tokens = <<>>
    /\ err = "none"
    /\ pos = 0
    /\ stream_obj = NoStreamObject
    /\ win_pc = "idle"
    /\ win_i = 0
    /\ chunks = <<>>
    /\ xref_file = EmptyTable
    /\ startxref = 0
    /\ xref_table = EmptyTable
    /\ trailer_dict = NoTrailer
    /\ xref_pc = "idle"
    /\ objects = EmptyTable
    /\ obj_by_num = EmptyTable
    /\ offsets = <<>>
    /\ last = NoCall
    /\ first = EmptyTable
    /\ crashed = FALSE
    /\ text_state = TextState
    /\ font_by_ref = EmptyTable
    /\ font = DefaultFont
    /\ elements = <<>>
    /\ page = NoPage
    /\ ops = NoOps
    /\ stack = <<>>
    /\ parsed = <<>>
    /\ returned = NoObject
    /\ parse_exc = "none"
    /\ page_tree = NoTree
    /\ kid_stack = <<>>
    /\ yielded = <<>>
    /\ pages_pc = "idle"
    /\ queue = <<>>
    /\ operations = <<>>
    /\ content_exc = "none"
    /\ cmap_tokens = <<>>
    /\ cmap_i = 0
    /\ cmap_stack = <<>>
    /\ fchar_count = 0
    /\ cmap_encoding = EmptyTable
    /\ cmap_pc = "idle"
    /\ encryption_key = <<>>
    /\ obj_id = <<0, 0>>
    /\ data = <<>>
    /\ encrypted = None
    /\ decrypted = None
    /\ ec = NoIterator
    /\ ec_fed = <<>>
    /\ ec_out = <<>>
    /\ texts = <<>>
    /\ text_i = 0
    /\ cur_txt = None
    /\ txts = <<>>
    /\ merged = <<>>
    /\ process_pc = "idle"
    /\ xref_turns = 0
    /\ file_bytes = <<>>
    /\ chunk_size = BUF_SIZE
    /\ tell = 0
    /\ remainders = <<>>
    /\ lines_out = <<>>
    /\ rev_pc = "idle"
    /\ found = NotFound
    /\ io_bytes \in ObjectFiles
    /\ io_tell = 0
    /\ io_obj = NoObject
    /\ io_word = <<>>
    /\ io_pc = "start"
    /\ io_ret = NoObject

SpecWrap == InitWrap /\ [][NextWrap]_vars

SpecStr == InitWrap /\ [][NextStr]_vars
SpecOct == InitWrap /\ [][NextOct]_vars

SpecHex == InitWrap /\ [][NextHex]_vars

SpecName == InitWrap /\ [][NextName]_vars

SpecNum == InitWrap /\ [][NextNum]_vars

SpecWs == InitWrap /\ [][NextWs]_vars

SpecAll == InitWrap /\ [][NextAll]_vars

SpecParse == InitWrap /\ [][NextParse]_vars

SpecPages == InitPages /\ [][NextPages]_vars

SpecWin == InitWin /\ [][NextWin]_vars

SpecXref == InitXref /\ [][NextXref]_vars

\* parse_document runs on: a step that it can take is taken
SpecXrefRun == InitXref /\ [][NextXref]_vars /\ WF_vars(NextXref)

SpecDeref == InitDeref /\ [][NextDeref]_vars

SpecText == InitText /\ [][NextText]_vars

SpecShow == InitText /\ [][NextShow]_vars
SpecGap == InitText /\ [][NextGap]_vars
SpecLeading == InitText /\ [][NextLeading]_vars

SpecContent == InitWrap /\ [][NextContent]_vars

SpecContentBytes == InitWrap /\ [][NextContentBytes]_vars

SpecCMap == InitCMap /\ [][NextCMap]_vars

SpecEncrypt == InitRC4 /\ [][NextEncrypt]_vars

SpecChunks == InitRC4 /\ [][NextChunks]_vars

SpecProcess == InitProcess /\ [][NextProcess]_vars
SpecReverse == InitReverse /\ [][NextReverse]_vars
SpecTrailer == InitTrailer /\ [][NextTrailer]_vars
\* the generator is run to its end: list(reverse_reader(stream))
SpecReverseRun == SpecReverse /\ WF_vars(NextReverse)
SpecIndirect == InitIndirect /\ [][NextIndirect]_vars

(***************************************************************************)
(* Literal strings: what the claims expect of an input "(" body ")"        *)
(***************************************************************************)
\* the position of the first unescaped ")" with no matching unescaped "("
\* from position i on at nesting depth d; 0 when the string is still open
RECURSIVE ClosePos(_, _)
ClosePos(i, d) ==
    IF i > Len(input) THEN 0
    ELSE IF input[i] = BACKSLASH THEN ClosePos(i + 2, d)
    ELSE IF input[i] = LEFT_PARENTHESIS THEN ClosePos(i + 1, d + 1)
    ELSE IF input[i] = RIGHT_PARENTHESIS
    THEN IF d = 0 THEN i ELSE ClosePos(i + 1, d - 1)
    ELSE ClosePos(i + 1, d)

\* the input is a literal string read up to its closing parenthesis, which
\* the string state has handled
StringJustClosed ==
    /\ Len(input) >= 2
    /\ input[1] = LEFT_PARENTHESIS
    /\ ClosePos(2, 0) = Len(input)
    /\ ~sw_unget

Body == SubSeq(input, 2, Len(input) - 1)

\* the parentheses of a byte sequence, in order
RECURSIVE Parens(_)
Parens(bs) ==
    IF bs = <<>> THEN <<>>
    ELSE IF bs[1] \in {LEFT_PARENTHESIS, RIGHT_PARENTHESIS}
    THEN <<bs[1]>> \o Parens(Tail(bs))
    ELSE Parens(Tail(bs))

OctDigits == ZERO_DIGIT..55

\* a body made of ordinary bytes and of backslash-digit escapes only
RECURSIVE OctalBody(_)
OctalBody(bs) ==
    IF bs = <<>> THEN TRUE
    ELSE IF bs[1] = BACKSLASH
    THEN Len(bs) >= 2 /\ bs[2] \in OctDigits /\ OctalBody(SubSeq(bs, 3, Len(bs)))
    ELSE bs[1] \in OctDigits \cup {Z_LOWER} /\ OctalBody(Tail(bs))

\* the number of octal digits, at most three, that open bs
OctRun(bs) ==
    IF Len(bs) >= 3 /\ bs[1] \in OctDigits /\ bs[2] \in OctDigits /\ bs[3] \in OctDigits
    THEN 3
    ELSE IF Len(bs) >= 2 /\ bs[1] \in OctDigits /\ bs[2] \in OctDigits THEN 2
    ELSE 1

RECURSIVE OctVal(_)
OctVal(ds) ==
    IF ds = <<>> THEN 0
    ELSE OctVal(SubSeq(ds, 1, Len(ds) - 1)) * 8 + (ds[Len(ds)] - ZERO_DIGIT)

\* the bytes of an octal body: one byte per escape, the other bytes as written
RECURSIVE DecodeOctal(_)
DecodeOctal(bs) ==
    IF bs = <<>> THEN <<>>
    ELSE IF bs[1] = BACKSLASH
    THEN LET k == OctRun(Tail(bs)) IN
         <<OctVal(SubSeq(bs, 2, k + 1))>> \o DecodeOctal(SubSeq(bs, k + 2, Len(bs)))
    ELSE <<bs[1]>> \o DecodeOctal(Tail(bs))

\* a body made of ordinary bytes, end-of-line bytes and line continuations
RECURSIVE EolBody(_)
EolBody(bs) ==
    IF bs = <<>> THEN TRUE
    ELSE IF bs[1] = BACKSLASH
    THEN /\ Len(bs) >= 2
         /\ bs[2] \in {CARRIAGE_RETURN, LINE_FEED}
         /\ EolBody(SubSeq(bs, 3, Len(bs)))
    ELSE bs[1] \in {Z_LOWER, CARRIAGE_RETURN, LINE_FEED} /\ EolBody(Tail(bs))

\* the bytes of such a body: backslash CR LF, backslash CR and backslash LF
\* give nothing, every other byte is kept
RECURSIVE DecodeEol(_)
DecodeEol(bs) ==
    IF bs = <<>> THEN <<>>
    ELSE IF bs[1] = BACKSLASH
    THEN IF bs[2] = CARRIAGE_RETURN /\ Len(bs) >= 3 /\ bs[3] = LINE_FEED
         THEN DecodeEol(SubSeq(bs, 4, Len(bs)))
         ELSE DecodeEol(SubSeq(bs, 3, Len(bs)))
    ELSE <<bs[1]>> \o DecodeEol(Tail(bs))

\* C8: a literal string gives exactly one string token, emitted at the first
\* unescaped ")" that has no matching unescaped "(": no token before it, and
\* the token keeps every parenthesis of the body, escaped or balanced, in order.
C8_OneTokenAtUnmatchedParen ==
    (Len(input) >= 1 /\ input[1] = LEFT_PARENTHESIS /\ ~sw_unget) =>
        IF ClosePos(2, 0) = 0 THEN tokens = <<>>
        ELSE /\ Len(tokens) >= 1
             /\ tokens[1].type = "String"
             /\ ClosePos(2, 0) = Len(input) => Len(tokens) = 1
             /\ Parens(tokens[1].bs) = Parens(SubSeq(input, 2, ClosePos(2, 0) - 1))

\* C9: a backslash followed by one, two or three octal digits gives one byte
\* with that octal value, and the byte after the escape is an ordinary byte.
C9_OctalEscapeOneByte ==
    (StringJustClosed /\ OctalBody(Body)) =>
        tokens = <<StringObject(DecodeOctal(Body))>>

\* C10: a backslash followed by CR, LF or CRLF gives no byte, and every later
\* unescaped byte of the string, a later LF included, is kept unchanged.
C10_LineContinuation ==
    (StringJustClosed /\ EolBody(Body)) =>
        tokens = <<StringObject(DecodeEol(Body))>>

(***************************************************************************)
(* The pushback wrapper: what the history of calls must look like          *)
(***************************************************************************)
\* the calls of next before call i that returned a byte
ByteBefore(i) ==
    {j \in 1..(i - 1) : hist[j].op = "next" /\ ~hist[j].stop}

Highest(S) == CHOOSE x \in S : \A y \in S : y <= x

\* the byte most recently returned before call i
LastByte(i) == hist[Highest(ByteBefore(i))].ret

\* the last call of next before call i, 0 when there is none
PrevNext(i) ==
    Highest({0} \cup {j \in 1..(i - 1) : hist[j].op = "next"})

\* call i is a next that follows an unget made after a byte was returned
Replay(i) ==
    /\ hist[i].op = "next"
    /\ ByteBefore(i) # {}
    /\ \E j \in (PrevNext(i) + 1)..(i - 1) : hist[j].op = "unget"

\* the bytes returned by the first n calls, the replays left out
RECURSIVE FreshBytes(_)
FreshBytes(n) ==
    IF n = 0 THEN <<>>
    ELSE IF hist[n].op = "next" /\ ~Replay(n) /\ ~hist[n].stop
    THEN Append(FreshBytes(n - 1), hist[n].ret)
    ELSE FreshBytes(n - 1)

\* C7: after unget the following next returns again the byte most recently
\* returned (also after an end of input); one unget or several in a row push
\* back one byte only; unget before the first byte has no effect; apart from
\* the repeated bytes, next returns the underlying bytes in order, none skipped,
\* and reports the end of input only when the underlying stream has ended.
C7_Pushback ==
    /\ \A i \in 1..Len(hist) :
         /\ Replay(i) => ~hist[i].stop /\ hist[i].ret = LastByte(i)
         /\ (hist[i].op = "next" /\ hist[i].stop) => eof
    /\ FreshBytes(Len(hist)) = input

\* two ungets in a row, the byte returned again once, then the next byte; and
\* an unget after the end of input that brings the last byte back
C7_Witness ==
    /\ Len(hist) = 8
    /\ hist[1].op = "next" /\ hist[1].ret = F_LOWER
    /\ hist[2].op = "unget"
    /\ hist[3].op = "unget"
    /\ hist[4].op = "next" /\ hist[4].ret = F_LOWER
    /\ hist[5].op = "next" /\ ~hist[5].stop /\ hist[5].ret = 111
    /\ hist[6].op = "next" /\ hist[6].stop
    /\ hist[7].op = "unget"
    /\ hist[8].op = "next" /\ ~hist[8].stop /\ hist[8].ret = 111
    /\ input = <<F_LOWER, 111>>

(***************************************************************************)
(* The stream window: the payload of the stream object                     *)
(***************************************************************************)
\* b"".join(chunks)
RECURSIVE Concat(_)
Concat(cs) == IF cs = <<>> THEN <<>> ELSE Head(cs) \o Concat(Tail(cs))

\* the source bytes in [start, start + length)
Payload ==
    [k \in 1..stream_obj.length |-> stream_obj.start + k - 1]

\* C6: for a stream object of any length L >= 0, the chunks the stream
\* window has yielded when it is exhausted, concatenated, are exactly the L
\* source bytes in [start, start + L): none is missing and none beyond is
\* read, also when L is a multiple of BUF_SIZE
C6_WindowIsPayload == win_pc = "done" => Concat(chunks) = Payload

(***************************************************************************)
(* The cross-reference table: the newest section wins                      *)
(***************************************************************************)
\* the section at s has a subsection whose range holds n
Mentions(s, n) ==
    \E j \in DOMAIN xref_file[s].subs :
        LET sub == xref_file[s].subs[j]
        IN sub.off <= n /\ n < sub.off + sub.n

\* the entries the section at s gives for n
EntriesOf(s, n) ==
    {EntryAt(s, j, n - xref_file[s].subs[j].off + 1) :
        j \in {i \in DOMAIN xref_file[s].subs :
                 xref_file[s].subs[i].off <= n
                 /\ n < xref_file[s].subs[i].off + xref_file[s].subs[i].n}}

\* the sections reached from s through /Prev, the newest first (at most
\* fuel of them)
RECURSIVE PrevChain(_, _)
PrevChain(s, fuel) ==
    IF fuel = 0 THEN <<>>
    ELSE <<s>> \o (IF xref_file[s].prev = <<>> THEN <<>>
                   ELSE PrevChain(xref_file[s].prev[1], fuel - 1))

Chain == PrevChain(startxref, NSections)

Mentioned == {n \in ObjNums : \E i \in DOMAIN Chain : Mentions(Chain[i], n)}

\* the newest section of the chain that mentions n
Newest(n) ==
    Chain[CHOOSE i \in DOMAIN Chain :
            /\ Mentions(Chain[i], n)
            /\ \A k \in 1..(i - 1) : ~Mentions(Chain[k], n)]

\* C2: after parse_document the merged xref table has an entry for exactly
\* the object numbers mentioned by a section of the /Prev chain, and the
\* entry of n is the one of the newest section that mentions n
C2_NewestSectionWins ==
    xref_pc = "done" =>
        /\ DOMAIN xref_table = Mentioned
        /\ \A n \in Mentioned : xref_table[n] \in EntriesOf(Newest(n), n)

\* an update that mentions again an object of the original file and leaves
\* another one of its objects alone has been merged
C2_Witness ==
    /\ xref_pc = "done"
    /\ Len(Chain) >= 2
    /\ \E n, m \in ObjNums :
         /\ Mentions(Chain[1], n) /\ Mentions(Chain[2], n)
         /\ ~Mentions(Chain[1], m) /\ Mentions(Chain[2], m)

(***************************************************************************)
(* Indirect objects: what the callers of deref_object observe              *)
(***************************************************************************)
\* C3: a call of deref_object for an object number of the xref table that
\* follows a call for the same number returns the same value and is served
\* from _obj_by_num, without a seek or a read of the source
C3_DerefIdempotent ==
    (last.op = "deref" /\ last.exc = "none" /\ last.seen
        /\ last.n \in DOMAIN xref_table) =>
        /\ last.val = first[last.n]
        /\ last.reads = 0

\* C4: whenever deref_object returns, to a client or to _read_stream, the
\* position of the byte source and the stack of saved positions are what
\* they were when it was called
C4_PositionRestored ==
    last.op = "deref" =>
        \A i \in DOMAIN last.log :
            /\ last.log[i].pos_out = last.log[i].pos_in
            /\ last.log[i].offsets_out = last.log[i].offsets_in

\* C5: deref_object of a number with no xref entry returns null without
\* raising and leaves _obj_by_num, the xref table and the position of the
\* byte source unchanged
C5_MissingEntryIsNull ==
    last.op = "deref" =>
        /\ last.n \notin DOMAIN xref_table =>
             /\ last.exc = "none"
             /\ last.val = NullObject
             /\ obj_by_num = last.obj_by_num
             /\ xref_table = last.xref_table
             /\ pos = last.pos
        /\ \A i \in DOMAIN last.log :
             last.log[i].n \notin DOMAIN xref_table =>
                /\ last.log[i].val = NullObject
                /\ last.log[i].cache_out = last.log[i].cache_in
                /\ last.log[i].pos_out = last.log[i].pos_in

\* a client that has resolved an object and reads elsewhere dereferences a
\* number that is not in the xref table
C5_Witness ==
    /\ last.op = "deref"
    /\ last.n \notin DOMAIN xref_table
    /\ last.val = NullObject
    /\ obj_by_num # EmptyTable
    /\ pos # 0

(***************************************************************************)
(* Text extraction: the elements of a page                                 *)
(***************************************************************************)
\* C1: the first element of every page is NewPage, and the Text emitted for
\* a ShowTextString carries the translation of Tm before the advance of the
\* string as (x, y) and the size operand of the most recent SetFont as
\* font_size
C1_TextOfShowTextString ==
    /\ elements # <<>> => elements[1] = NewPage
    /\ ops.op.kind = "NewPage" => elements[Len(elements)] = NewPage
    /\ (ops.op.kind = "ShowTextString" /\ ops.Tf # None) =>
          LET t == elements[Len(elements)]
          IN /\ t.type = "Text"
             /\ t.x = ops.before.tm.e
             /\ t.y = ops.before.tm.f
             /\ t.font_size = ops.Tf[1]

(***************************************************************************)
(* Hex strings: what the claims expect of an input "<" digits ">"          *)
(***************************************************************************)
\* the input is "<", hex digits only, ">", and the ">" has been handled
HexJustClosed ==
    /\ Len(input) >= 2
    /\ input[1] = LESS_THAN
    /\ input[Len(input)] = GREATER_THAN
    /\ \A i \in 2..(Len(input) - 1) :
          input[i] \in (48..57) \cup (65..70) \cup (97..102)
    /\ ~sw_unget

HexBody == SubSeq(input, 2, Len(input) - 1)

\* the value of one hex digit, upper or lower case
Nibble(c) ==
    CHOOSE v \in 0..15 :
        \/ v < 10 /\ c = 48 + v
        \/ v >= 10 /\ c \in {65 + v - 10, 97 + v - 10}

\* the digit pairs of ds, most-significant nibble first, a missing last
\* digit counting as 0
PairsDecoded(ds) ==
    LET d(i) == IF i <= Len(ds) THEN Nibble(ds[i]) ELSE 0
    IN [j \in 1..((Len(ds) + 1) \div 2) |-> 16 * d(2 * j - 1) + d(2 * j)]

\* C11: a hex string <h1 ... hk> of hex digits gives one string token whose
\* bytes are the digit pairs, most-significant nibble first; an odd last
\* digit is paired with a trailing 0; <> gives the empty string.
C11_HexStringDecoded ==
    HexJustClosed =>
        /\ tokens = <<StringObject(PairsDecoded(HexBody))>>
        /\ err = "none"
        /\ state = StartState

\* a hex string of three digits, the last one paired with 0, has been closed
C11_Witness ==
    /\ HexJustClosed
    /\ HexBody = <<52, A_UPPER, F_LOWER>>
    /\ tokens = <<StringObject(<<74, 240>>)>>

(***************************************************************************)
(* Names: what the claims expect of an input "/" bytes terminator          *)
(***************************************************************************)
\* the bytes that end a name: ( ) < > [ ] { } / % and NUL HT LF FF CR SP
NameEnds == {40, 41, 60, 62, 91, 93, 123, 125, 47, 37} \cup {0, 9, 10, 12, 13, 32}

\* the input is "/", bytes that do not end a name, and one byte that does
NameInput ==
    /\ Len(input) >= 2
    /\ input[1] = SLASH
    /\ input[Len(input)] \in NameEnds
    /\ \A i \in 2..(Len(input) - 1) : input[i] \notin NameEnds

\* C12: a name token is "/" followed by every source byte up to, and not
\* including, the first delimiter or whitespace byte, no byte being decoded
\* or altered; the terminating byte is pushed back, and read again as the
\* first byte of what follows the name.
C12_NameBytesAndPushback ==
    /\ (input # <<>> /\ input[1] = SLASH
          /\ \A i \in 2..Len(input) : input[i] \notin NameEnds) => tokens = <<>>
    /\ NameInput =>
          /\ tokens # <<>>
          /\ tokens[1] = NameObject(SubSeq(input, 1, Len(input) - 1))
          /\ err = "none"
          /\ sw_prev = input[Len(input)]
          /\ sw_unget => state = StartState /\ Len(tokens) = 1
          /\ ~sw_unget =>
                LET c == input[Len(input)]
                IN /\ c = SLASH => state = NameObjectState /\ Len(tokens) = 1
                   /\ c = 32 => state = StartState /\ Len(tokens) = 1
                   /\ c = HORIZONTAL_TAB =>
                         state.name = "Word" /\ state.cs = <<c>> /\ Len(tokens) = 1

\* the name /#20 ended by "/": the "/" has been read again and opens a name
C12_Witness ==
    /\ input = <<SLASH, 35, 50, ZERO_DIGIT, SLASH>>
    /\ tokens = <<NameObject(<<SLASH, 35, 50, ZERO_DIGIT>>)>>
    /\ ~sw_unget
    /\ state = NameObjectState

(***************************************************************************)
(* Numbers: what the claims expect of the number tokens                    *)
(***************************************************************************)
\* the input is a sign, digit or ".", then digits with at most one "." in
\* all, then one byte that is neither a digit nor "."
NumberInput ==
    /\ Len(input) >= 2
    /\ input[1] \in {43, 45, DOT} \cup (48..57)
    /\ \A i \in 2..(Len(input) - 1) : input[i] \in {DOT} \cup (48..57)
    /\ Cardinality({i \in 1..(Len(input) - 1) : input[i] = DOT}) <= 1
    /\ input[Len(input)] \notin {DOT} \cup (48..57)

\* an optional sign only as the first byte, digits, and at most one "."
NumberShape(bs) ==
    /\ bs # <<>>
    /\ bs[1] \in {43, 45, DOT} \cup (48..57)
    /\ \A i \in 2..Len(bs) : bs[i] \in {DOT} \cup (48..57)
    /\ Cardinality({i \in 1..Len(bs) : bs[i] = DOT}) <= 1

\* the number that opens the input is one token with its source bytes, and
\* the byte that ends it is pushed back and read again by the Start state
NumberEndsAtFirstOther ==
    NumberInput =>
        /\ tokens # <<>>
        /\ tokens[1] = NumberObject(SubSeq(input, 1, Len(input) - 1))
        /\ sw_prev = input[Len(input)]
        /\ sw_unget => state = StartState /\ Len(tokens) = 1
        /\ ~sw_unget =>
              LET c == input[Len(input)]
              IN /\ c \in {43, 45} => state = DigitState(c) /\ Len(tokens) = 1
                 /\ c = 32 => state = StartState /\ Len(tokens) = 1
                 /\ c = F_LOWER => state = WordState(c) /\ Len(tokens) = 1

\* every number token has the shape of a number
NumberTokensShaped ==
    \A i \in 1..Len(tokens) :
        tokens[i].type = "Number" => NumberShape(tokens[i].bs)

\* C13: every number token carries the source bytes of one number (optional
\* sign first, digits, at most one "."), the first byte that is neither a
\* digit nor "." ends it and is pushed back, and its value is a float when
\* its bytes contain "." and an integer otherwise.
C13_NumberTokenValue ==
    /\ NumberEndsAtFirstOther
    /\ NumberTokensShaped
    /\ \A i \in 1..Len(tokens) :
          tokens[i].type = "Number" =>
              value(tokens[i]) =
                  IF \E j \in 1..Len(tokens[i].bs) : tokens[i].bs[j] = DOT
                  THEN "float" ELSE "int"

(***************************************************************************)
(* Whitespace in the Start state                                           *)
(***************************************************************************)
\* the byte that a turn of the tokenizer's loop delivers to the state
Delivered == IF sw_unget THEN sw_prev ELSE input'[Len(input')]

\* a turn of the loop, as opposed to the end of the input
Turn == eof' = eof /\ (sw_unget \/ input' # input)

\* C14: in the Start state each of NUL, HT, LF, FF, CR and SP is a
\* separator: the tokenizer stays in Start, emits no token for it and does
\* not make it the first byte of a word.
C14_WhitespaceSeparates ==
    [][(state.name = "Start" /\ Turn /\ Delivered \in {0, 9, 10, 12, 13, 32}) =>
           /\ state' = StartState
           /\ tokens' = tokens
           /\ err' = "none"]_vars

(***************************************************************************)
(* Tokenizer errors                                                        *)
(***************************************************************************)
\* the three cases of a tokenizer error: after "<" a byte that is neither
\* "<", ">" nor a hex digit; after ">" a byte that is not ">"; in a hex
\* string a byte that is neither a hex digit nor ">"
ErrorCase ==
    LET hex == (48..57) \cup (65..70) \cup (97..102) IN
    \/ state.name = "OpenDictOrHexString" /\ Delivered \notin {60, 62} \cup hex
    \/ state.name = "CloseDict" /\ Delivered # 62
    \/ state.name = "HexString" /\ Delivered \notin {62} \cup hex

\* C15: a tokenizer error is raised, with no token for the offending byte,
\* exactly in the three cases above; no other byte in any state raises one.
C15_TokenErrorCases ==
    [][Turn =>
           /\ err' = "TokenError" <=> ErrorCase
           /\ err' = "TokenError" => tokens' = tokens]_vars

\* the three errors: "<" then "z", ">" then "z", "<4" then "z"
C15_Witness ==
    /\ err = "TokenError"
    /\ state.name = "HexString"
    /\ input = <<LESS_THAN, 52, Z_LOWER>>
    /\ tokens = <<>>

(***************************************************************************)
(* Objects: what the claims expect of ObjectParser.parse                   *)
(***************************************************************************)
\* the step reads the token w
ReadsWord(w) == parsed' = Append(parsed, w)

\* the values of the container being filled, after its opening token
Values(st) == Tail(st[Len(st)])

\* the word R replaces the last two values of the current container by
\* one reference, the earlier value as object number, the later one as
\* generation number, and leaves the values before them as they are
RefReplacesLastTwo ==
    (ReadsWord(W_R) /\ stack # <<>> /\ Len(Values(stack)) >= 2) =>
        LET vs == Values(stack)
            n == Len(vs)
        IN /\ parse_exc' = "none"
           /\ returned' = NoObject
           /\ Len(stack') = Len(stack)
           /\ \A i \in 1..(Len(stack) - 1) : stack'[i] = stack[i]
           /\ stack'[Len(stack)][1] = stack[Len(stack)][1]
           /\ Values(stack') =
                 SubSeq(vs, 1, n - 2) \o
                 <<[type |-> "IndirectRef", obj_num |-> vs[n - 1],
                    gen_num |-> vs[n]]>>

\* << /Length 3 0 R /Filter /FlateDecode >> gives a dictionary of the two
\* keys /Length, the reference (3, 0), and /Filter
StreamDictParsed ==
    parsed = StreamDict =>
        /\ parse_exc = "none"
        /\ returned.type = "Dict"
        /\ DOMAIN returned.d = {N_Length.bs, N_Filter.bs}
        /\ returned.d[N_Length.bs] =
              [type |-> "IndirectRef", obj_num |-> Num_3, gen_num |-> Num_0]
        /\ returned.d[N_Filter.bs] = N_FlateDecode

\* C16: inside a dictionary or array the word R removes the last two values
\* of the current container and puts one indirect reference in their place,
\* object number the earlier and generation number the later value, the
\* other values keeping their order; << /Length 3 0 R /Filter /FlateDecode >>
\* parses to a dictionary with exactly the keys /Length, reference (3, 0),
\* and /Filter.
C16_RefReplacesLastTwo == []StreamDictParsed /\ [][RefReplacesLastTwo]_vars

\* the stream dictionary has been parsed to its end
C16_Witness ==
    /\ parsed = StreamDict
    /\ returned.type = "Dict"
    /\ stack = <<>>

\* C17: the word true gives the boolean true and the word false the boolean
\* false, at top level (the value returned) and inside a dictionary or
\* array (the value appended to it).
C17_BooleanWords ==
    \A b \in BOOLEAN :
        (/\ parsed # <<>>
         /\ parsed[Len(parsed)] = (IF b THEN W_true ELSE W_false)
         /\ parse_exc # "StopIteration") =>
            /\ parse_exc = "none"
            /\ IF stack = <<>> THEN returned = BooleanObject(b)
               ELSE /\ returned = NoObject
                    /\ stack[Len(stack)][Len(stack[Len(stack)])] = BooleanObject(b)

\* C18: a word other than true, false, null and R, such as endobj or
\* stream, ends object parsing: parse returns to its caller and no
\* exception or assertion failure leaves it.
C18_OtherWordEndsParsing ==
    (/\ parsed # <<>>
     /\ parsed[Len(parsed)] \in Words \ {W_true, W_false, W_null, W_R}
     /\ parse_exc # "StopIteration") =>
        parse_exc = "none"

(***************************************************************************)
(* Pages: depth-first document order                                       *)
(***************************************************************************)
\* the elements of a sequence
Range(q) == {q[i] : i \in 1..Len(q)}

\* node n and the nodes below it
RECURSIVE Below(_)
Below(n) == {n} \cup UNION {Below(k) : k \in Range(page_tree.Kids[n])}

\* the pages of the tree
Pages == Below(0) \cap page_tree.Contents

\* the places of node n in the sequence of yielded nodes
Places(n) == {i \in 1..Len(yielded) : yielded[i] = n}

\* when the generator has ended every page has been yielded once, nothing
\* else has, and a page below an earlier element of a /Kids array comes
\* before every page below a later element of that array
DocumentOrder ==
    pages_pc = "done" =>
        /\ Range(yielded) = Pages
        /\ \A n \in Pages : Cardinality(Places(n)) = 1
        /\ \A p \in Below(0) \ page_tree.Contents :
              \A i, j \in 1..Len(page_tree.Kids[p]) :
                  i < j =>
                      \A x \in Below(page_tree.Kids[p][i]) \cap Pages,
                         y \in Below(page_tree.Kids[p][j]) \cap Pages :
                          \A a \in Places(x), b \in Places(y) : a < b

\* a node without /Contents taken from the worklist is replaced by its
\* /Kids, placed before all the remaining elements, and nothing is yielded
KidsFirst ==
    (pages_pc = "loop" /\ kid_stack # <<>>
        /\ Head(kid_stack) \notin page_tree.Contents) =>
            /\ kid_stack' = page_tree.Kids[Head(kid_stack)] \o Tail(kid_stack)
            /\ yielded' = yielded

\* C19: get_pages yields the pages of an acyclic page tree in depth-first
\* document order: a node without /Contents is replaced in the worklist by
\* its /Kids placed before all remaining elements, each page is yielded
\* exactly once, and a page listed earlier in a /Kids array is yielded
\* before every page reachable from a later element of that array.
C19_DepthFirstDocumentOrder == []DocumentOrder /\ [][KidsFirst]_vars

\* a node with two pages, listed before a page, has been traversed
C19_Witness ==
    /\ pages_pc = "done"
    /\ page_tree.Kids[0] = <<1, 2>>
    /\ page_tree.Kids[1] = <<3, 4>>
    /\ page_tree.Contents = {2, 3, 4}
    /\ yielded = <<3, 4, 2>>

\* C20: whenever a BeginText operation has been processed, the text matrix
\* Tm and the text line matrix Tlm are both the identity (1, 0, 0, 1, 0, 0),
\* whatever was executed before it in the same page or in earlier pages.
C20_BeginTextResetsMatrices ==
    ops.op.kind = "BeginText" =>
        /\ text_state.tm = TextMatrix(1, 0, 0, 1, 0, 0)
        /\ text_state.tlm = TextMatrix(1, 0, 0, 1, 0, 0)

\* C21: immediately after SetTextMatrix(m) both Tm and Tlm equal m in all
\* six components, whatever the text state before.
C21_SetTextMatrixSetsBoth ==
    ops.op.kind = "SetTextMatrix" =>
        \A k \in {"a", "b", "c", "d", "e", "f"} :
            /\ text_state.tm[k] = ops.op.args[1][k]
            /\ text_state.tlm[k] = ops.op.args[1][k]

\* a Tm executed when Tm and Tlm differed from each other and from m
C21_Witness ==
    /\ ops.op.kind = "SetTextMatrix"
    /\ ops.before.tm # ops.before.tlm
    /\ ops.before.tm # ops.op.args[1]
    /\ ops.before.tlm # ops.op.args[1]
    /\ text_state.tm = ops.op.args[1]

\* C22: after MoveStartNextLine(tx, ty) Tm equals Tlm and both are the Tlm
\* of before translated by (tx, ty): a, b, c, d unchanged,
\* e' = e + tx*a + ty*c and f' = f + tx*b + ty*d; the Tm of before has no
\* influence.
C22_MoveStartNextLineFromTlm ==
    ops.op.kind = "MoveStartNextLine" =>
        LET m == ops.before.tlm
            tx == ops.op.args[1]
            ty == ops.op.args[2]
        IN /\ text_state.tm = text_state.tlm
           /\ text_state.tlm.a = m.a
           /\ text_state.tlm.b = m.b
           /\ text_state.tlm.c = m.c
           /\ text_state.tlm.d = m.d
           /\ text_state.tlm.e = m.e + tx * m.a + ty * m.c
           /\ text_state.tlm.f = m.f + tx * m.b + ty * m.d

\* a Td executed on a rotated line matrix when Tm had left Tlm
C22_Witness ==
    /\ ops.op.kind = "MoveStartNextLine"
    /\ ops.before.tm # ops.before.tlm
    /\ ops.before.tlm.b # 0
    /\ ops.op.args = <<100, 700>>
    /\ text_state.tm = text_state.tlm

\* C23: in every text state Tm and Tlm are two matrices that share no
\* storage, so ShowTextString and UpdateTextMatrix change the translation
\* of Tm only and leave the six components of Tlm as they were.
C23_TlmUntouchedInLine ==
    /\ ~text_state.tm_is_tlm
    /\ ops.op.kind \in {"ShowTextString", "UpdateTextMatrix"} =>
          /\ text_state.tlm = ops.before.tlm
          /\ \A k \in {"a", "b", "c", "d"} : text_state.tm[k] = ops.before.tm[k]

\* a TJ number has moved Tm away from the Tlm that a Td had set
C23_Witness ==
    /\ ops.op.kind = "UpdateTextMatrix"
    /\ ops.before.tlm # identity
    /\ ops.before.tm = ops.before.tlm
    /\ text_state.tm # ops.before.tm
    /\ text_state.tlm = ops.before.tlm

(***************************************************************************)
(* C24: when parse_content reads a word that is not in the operator table, *)
(* it yields no operation and the operand queue is empty afterwards.       *)
(***************************************************************************)
\* the loop of parse_content reads the token of this step
ReadsToken == tokens' # tokens /\ Len(tokens') = Len(tokens) + 1

\* the token read in this step is a word outside the operator table
ReadsUnknown ==
    /\ ReadsToken
    /\ tokens'[Len(tokens')].type = "Word"
    /\ tokens'[Len(tokens')].bs \notin DOMAIN operator_by_token_bytes

UnknownWordClearsQueue ==
    ReadsUnknown => operations' = operations /\ queue' = <<>>

C24_UnknownWordClearsQueue == [][UnknownWordClearsQueue]_vars

(***************************************************************************)
(* C25: an operand-queue underflow or an operand of the wrong type at a    *)
(* known operator only skips that operation: the queue is cleared, no      *)
(* exception leaves parse_content, and the loop goes on.                   *)
(***************************************************************************)
\* the operands that the queue holds are not what the mnemonic bs takes: Td
\* takes two numbers, Tj a string
OperandFault(bs) ==
    \/ /\ bs = W_Td.bs
       /\ \/ Len(queue) < 2
          \/ \E i \in 1..2 : queue[i].type # "Number"
    \/ /\ bs = W_Tj.bs
       /\ \/ queue = <<>>
          \/ queue[1].type # "String"

\* the token read in this step is a known operator whose operands are faulty
ReadsFaulty ==
    /\ ReadsToken
    /\ tokens'[Len(tokens')].type = "Word"
    /\ OperandFault(tokens'[Len(tokens')].bs)

OperandFaultOnlySkips ==
    ReadsFaulty =>
        /\ operations' = operations
        /\ queue' = <<>>
        /\ content_exc' = "none"

C25_OperandFaultOnlySkips == [][OperandFaultOnlySkips]_vars

(***************************************************************************)
(* C26: the string of the Text of a ShowTextString, shown with a font      *)
(* whose space width triggers no space insertion, has one decoded unit per *)
(* byte, in order: the encoding's value for the byte, or U+FFFD when the   *)
(* encoding has none, for every byte value 0..255.                         *)
(***************************************************************************)
\* 0 < font_space_width < 1000 * char_space
InsertsSpaces(ft, ts) ==
    0 < get_space_width(ft) /\ get_space_width(ft) < 1000 * ts.char_space

\* one unit per byte of bs: the value of the encoding, or U+FFFD
UnitPerByte(encoding, bs) ==
    [i \in 1..Len(bs) |->
        IF bs[i] \in DOMAIN encoding THEN encoding[bs[i]] ELSE 65533]

C26_OneUnitPerByte ==
    (ops.op.kind = "ShowTextString" /\ ~InsertsSpaces(font, ops.before)) =>
        /\ elements[Len(elements)].type = "Text"
        /\ elements[Len(elements)].s = UnitPerByte(font.encoding, ops.op.args[1])

(***************************************************************************)
(* C27: after parse_to_unicode has processed a block                       *)
(* n beginbfchar <c1> <u1> ... <cn> <un> endbfchar, the map holds, for     *)
(* every one of the n pairs, int(ci, big-endian) -> ui decoded as          *)
(* UTF-16BE, a later pair for the same code overriding an earlier one.     *)
(***************************************************************************)
\* the pairs written in the block, and the k-th code and value
BlockPairs == (Len(cmap_tokens) - 3) \div 2
BlockCode(k) == from_bytes(cmap_tokens[2 * k + 1].bs)
BlockUni(k) == decode_utf_16_be(cmap_tokens[2 * k + 2].bs)

\* the block announces the pairs it holds, and every value is UTF-16BE
BlockWellFormed ==
    /\ int(cmap_tokens[1].bs) = BlockPairs
    /\ \A k \in 1..BlockPairs : BlockUni(k) # "UnicodeDecodeError"

\* the last pair of the block that has the code of the k-th
LastFor(k) ==
    CHOOSE j \in k..BlockPairs :
        /\ BlockCode(j) = BlockCode(k)
        /\ \A l \in (j + 1)..BlockPairs : BlockCode(l) # BlockCode(k)

C27_BfCharPairsMapped ==
    (cmap_pc = "returned" /\ BlockWellFormed) =>
        \A k \in 1..BlockPairs :
            /\ BlockCode(k) \in DOMAIN cmap_encoding
            /\ cmap_encoding[BlockCode(k)] = BlockUni(LastFor(k))

(***************************************************************************)
(* C28: for every file key, object identifier and buffer, encrypt_data on  *)
(* the result of encrypt_data, with the same object identifier, gives the  *)
(* buffer back.                                                            *)
(***************************************************************************)
C28_EncryptTwiceRestores == decrypted # None => decrypted[1] = data

\* a buffer of three bytes of an object with a number of three bytes has
\* been encrypted to other bytes and restored
C28_Witness ==
    /\ decrypted # None
    /\ Len(data) >= 3
    /\ obj_id = <<66051, 0>>
    /\ \A k \in 1..Len(data) : encrypted[1][k] # data[k]
    /\ decrypted[1] = data

(***************************************************************************)
(* C29: for every key and every split of a buffer into consecutive chunks, *)
(* empty ones included, the outputs of one ARC4_iterator on the chunks, in *)
(* order and concatenated, are the bytes of the one-shot ARC4 on the       *)
(* buffer.                                                                 *)
(***************************************************************************)
C29_ChunksEqualOneShot ==
    (ec # NoIterator /\ Total(ec_fed) = Len(data)) =>
        ec_out = ARC4(get_rc4_key(encryption_key, obj_id[1], obj_id[2]), data)

\* a buffer of three bytes has been fed as one byte, an empty chunk and two
\* bytes
C29_Witness ==
    /\ ec # NoIterator
    /\ ec_fed = <<1, 0, 2>>
    /\ Len(data) = 3
    /\ ec.i = 3
    /\ ec_out # data
    /\ Len(ec_out) = 3

(***************************************************************************)
(* C30: a name, number or word token is emitted only when a byte that      *)
(* terminates it is read; when the input ends while a token is being       *)
(* accumulated, nothing is emitted for the pending bytes, so an operator   *)
(* mnemonic that ends the content stream is never delivered.               *)
(***************************************************************************)
\* the byte c ends a token of this type
Terminates(type, st, c) ==
    CASE type = "Name" -> c \in DELIMITERS \cup WHITESPACES
      [] type = "Number" -> c \notin DecDigits /\ (c = DOT => st.dot)
      [] type = "Word" ->
           ~((A_LOWER <= c /\ c <= Z_LOWER) \/ (A_UPPER <= c /\ c <= Z_UPPER)
             \/ c = STAR)

\* a name, number or word is emitted in a turn that reads a terminating
\* byte, and consists of the bytes accumulated before it
EmittedAtTerminator ==
    (tokens' # tokens /\ tokens'[Len(tokens')].type \in {"Name", "Number", "Word"}) =>
        /\ Turn
        /\ Terminates(tokens'[Len(tokens')].type, state, Delivered)
        /\ tokens'[Len(tokens')].bs = state.cs

\* the end of the input emits no token and delivers no operation
EndEmitsNothing ==
    (eof' /\ ~eof) =>
        /\ tokens' = tokens
        /\ operations' = operations
        /\ queue' = queue

\* every operation delivered comes from a word token that was emitted
OnlyEmittedWordsDeliver ==
    Len(operations) <=
        Cardinality({i \in 1..Len(tokens) :
                        /\ tokens[i].type = "Word"
                        /\ tokens[i].bs \in DOMAIN operator_by_token_bytes})

C30_PendingTokenNotEmitted ==
    []OnlyEmittedWordsDeliver /\ [][EmittedAtTerminator /\ EndEmitsNothing]_vars

\* the stream (1)Tj has ended: the string is on the queue, the word Tj is
\* pending and no operation has been delivered
C30_Witness ==
    /\ eof
    /\ input = <<LEFT_PARENTHESIS, 49, RIGHT_PARENTHESIS, 84, 106>>
    /\ state.name = "Word"
    /\ state.cs = W_Tj.bs
    /\ queue = <<StringObject(<<49>>)>>
    /\ tokens = <<StringObject(<<49>>)>>
    /\ operations = <<>>

(***************************************************************************)
(* C31: process_texts passes the Text elements of every page to            *)
(* merge_texts, those of the last page and of a single page included.      *)
(***************************************************************************)
\* the strings of the Text elements of a sequence, joined in order
RECURSIVE Strs(_)
Strs(es) ==
    IF es = <<>> THEN <<>>
    ELSE (IF Head(es).type = "Text" THEN Head(es).s ELSE <<>>) \o Strs(Tail(es))

\* the strings of the lists passed to merge_texts, joined in order
RECURSIVE MergedStrs(_)
MergedStrs(ls) == IF ls = <<>> THEN <<>> ELSE Strs(Head(ls)) \o MergedStrs(Tail(ls))

C31_EveryPageWritten ==
    process_pc = "returned" => MergedStrs(merged) = Strs(texts)

(***************************************************************************)
(* C32: parse_document terminates on every file whose xref sections and    *)
(* trailers are well formed, also when the /Prev chain leads back to a     *)
(* section that was already merged: a PDFDocument is returned.             *)
(***************************************************************************)
C32_ParseDocumentTerminates == <>(xref_pc = "done")


(***************************************************************************)
(* C33: the trailer discovery and the line terminators                     *)
(***************************************************************************)
\* the file is made of the head, the three lines ls with the terminator t,
\* and n terminators after the last line
IsTrailerFile(head, t, ls, n) == file_bytes = TrailerFile(head, t, ls, n)

\* what the trailer discovery owes to a file ending with the lines ls
TrailerFound(ls) ==
    /\ ls = <<B_startxref, B_offset, B_EOF>>
       => found = [exc |-> "none", value |-> int(B_offset)]
    /\ ls[3] # B_EOF \/ ls[1] # B_startxref => found.exc # "none"

\* C33: when the trailer discovery has ended on a file whose last lines are
\* startxref, the offset and %%EOF, whatever the terminator LF, CR or CRLF
\* and the number of blank lines after them, it has returned the offset; on
\* a file whose last line is not %%EOF or whose line before the offset is
\* not startxref it has raised an error
C33_StartXrefFound ==
    rev_pc = "found" =>
        \A t \in Terminators, ls \in [1..3 -> TrailerLines],
           n \in 0..MaxBlank :
            \A head \in {<<>>, B_comment \o t} :
                IsTrailerFile(head, t, ls, n) => TrailerFound(ls)


(***************************************************************************)
(* C40: the lines of the backward reader                                   *)
(***************************************************************************)
\* the positions of the end-of-line bytes of the file
EolAt == {k \in 1..Len(file_bytes) :
             file_bytes[k] \in {CARRIAGE_RETURN, LINE_FEED}}

\* the piece that starts at position k: up to the next end-of-line byte, or
\* to the end of the file
PieceFrom(k) ==
    LET ends == {e \in EolAt : e >= k}
        stop == IF ends = {} THEN Len(file_bytes) + 1
                ELSE CHOOSE e \in ends : \A f \in ends : e <= f
    IN SubSeq(file_bytes, k, stop - 1)

\* the pieces of the file split at every CR and every LF, the last one first
PiecesBackwards ==
    LET starts == {1} \cup {e + 1 : e \in EolAt}
        n == Cardinality(starts)
        nth(j) == CHOOSE k \in starts :
                      Cardinality({l \in starts : l > k}) = j - 1
    IN [j \in 1..n |-> PieceFrom(nth(j))]

\* C40: whatever the file and the size of the chunks, the generator ends,
\* and the lines it has yielded are, the last one first, the pieces of the
\* file split at every single CR and every single LF
C40_LinesAreThePieces ==
    /\ [](rev_pc = "done" => lines_out = PiecesBackwards)
    /\ <>(rev_pc = "done")

\* a line of two bytes astride two chunks, after an empty line between a CR
\* and a LF, has been yielded
C40_Witness ==
    /\ rev_pc = "done"
    /\ chunk_size = 2
    /\ file_bytes = <<A_LOWER, CARRIAGE_RETURN, LINE_FEED, A_LOWER, Z_LOWER>>
    /\ lines_out = <<<<A_LOWER, Z_LOWER>>, <<>>, <<A_LOWER>>>>


(***************************************************************************)
(* C34: one blank line before a closing keyword                            *)
(***************************************************************************)
\* read_indirect_object has ended
IndirectEnded == io_pc \in {"returned", "raised"}

\* the file has one blank line before `endobj` after a non-stream object
BlankBeforeEndobj ==
    \E t \in Terminators, o \in {B_number, B_dict} :
        io_bytes = ObjectFile(t, o, FALSE, 1, 0, 0)

\* the file is a stream with one blank line before `endstream`, or one
\* before the `endobj` after it
BlankInStream ==
    \E t \in Terminators, b \in {<<1, 0>>, <<0, 1>>} :
        io_bytes = ObjectFile(t, B_dict, TRUE, 0, b[1], b[2])

\* C34: an indirect object that has exactly one blank line before `endobj`
\* after a number or after the >> line of a dictionary, before `endstream`
\* after the payload and its end of line, or before `endobj` after
\* `endstream`, is read without an error
C34_OneBlankLineTolerated ==
    IndirectEnded /\ (BlankBeforeEndobj \/ BlankInStream)
        => io_pc = "returned"


(***************************************************************************)
(* C35: the fonts of a page                                                *)
(***************************************************************************)
\* C35: while the content of a page is interpreted, get_font gives, for
\* every name of the /Font dictionary of the /Resources of that page, the
\* font of that dictionary, whatever the earlier pages bound the name to
C35_FontOfThePage ==
    page.count > 0 =>
        \A name \in DOMAIN page.fonts : get_font(name) = page.fonts[name]


(***************************************************************************)
(* C36: the NewText before a Text                                          *)
(***************************************************************************)
\* the step executes a ShowTextString
ShowsString == ops'.n = ops.n + 1 /\ ops'.op.kind = "ShowTextString"

\* the distances from the position stored by the last Text: 0 for the first
DeltaY(ts) == IF ts.last_y = None THEN 0 ELSE ts.tm.f - ts.last_y[1]
DeltaX(ts) == IF ts.last_x = None THEN 0 ELSE ts.tm.e - ts.last_x[1]

\* the vertical distance exceeds the font size fs, or else fs is not 0 and
\* the horizontal gap scaled by 1000 / fs exceeds a positive space width
OtherLineOrGap(ft, ts, fs) ==
    IF Abs(DeltaY(ts)) > fs THEN TRUE
    ELSE fs # 0 /\ GapExceeds(get_space_width(ft), DeltaX(ts), fs)

\* the step emits one Text, after a NewText iff b
EmitsText(b) ==
    /\ Len(elements') = Len(elements) + (IF b THEN 2 ELSE 1)
    /\ SubSeq(elements', 1, Len(elements)) = elements
    /\ elements'[Len(elements')].type = "Text"
    /\ b => elements'[Len(elements) + 1] = NewText

NewTextIffFar ==
    ShowsString =>
        /\ EmitsText(OtherLineOrGap(font, text_state, text_state.text_font_size))
        /\ text_state.last_y = None => EmitsText(FALSE)

\* C36: every ShowTextString emits exactly one Text, after one NewText iff
\* the vertical distance from the stored last_y exceeds the font size, or
\* else the font size is not 0 and the horizontal gap from the stored
\* last_x, scaled by 1000 / font size, exceeds a positive space width; the
\* first Text ever shown comes without a NewText
C36_NewTextIffFar == [][NewTextIffFar]_vars


(***************************************************************************)
(* C37: T* moves by the leading                                            *)
(***************************************************************************)
\* the step executes a MoveStartNextLineWoParams
MovesWoParams ==
    ops'.n = ops.n + 1 /\ ops'.op.kind = "MoveStartNextLineWoParams"

\* Tm and Tlm after the step are those of MoveStartNextLine(0, -leading),
\* with the leading most recently set by TL or TD, or 0; the other
\* parameters of the text state are those before the step
MovesByLeading ==
    MovesWoParams =>
        LET line == shift(text_state.tlm, 0, -ops.TL)
        IN /\ text_state'.tm = line
           /\ text_state'.tlm = line
           /\ text_state' = [text_state EXCEPT !.tm = line, !.tlm = line,
                                               !.tm_is_tlm = FALSE]

\* C37: in every text state T* acts on Tm and Tlm as
\* MoveStartNextLine(0, -leading) does, where leading is the operand of the
\* last TL, or minus the ty of the last TD, or 0, and changes no other
\* parameter of the text state
C37_StarMovesByLeading == [][MovesByLeading]_vars

\* T* has moved the line down by the 5 units of a TD
C37_Witness ==
    /\ ops.op.kind = "MoveStartNextLineWoParams"
    /\ ops.TL = 5
    /\ text_state.tlm.f = ops.before.tlm.f - 5
    /\ text_state.tm = text_state.tlm


(***************************************************************************)
(* C38: the octal escapes of a literal string                              *)
(***************************************************************************)
\* the digits taken for the escape being read are octal digits
OctalDigitsOnly == \A k \in DOMAIN state.ddd : state.ddd[k] \in 0..7

\* the bytes collected for the string are bytes
BytesOnly == \A k \in DOMAIN state.cs : state.cs[k] \in 0..255

\* C38: in a literal string only the digits 0-7 are taken as the digits of
\* an octal escape, every escape gives a value in 0..255, also one of three
\* digits above 377, and the building of the string token raises no error
C38_OctalEscapeIsAByte ==
    /\ err # "struct.error"
    /\ state.name = "String" => OctalDigitsOnly /\ BytesOnly


(***************************************************************************)
(* C39: the dictionary built at a close-dict token                         *)
(***************************************************************************)
\* the step reads a close-dict token that has a matching open-dict
ClosesDict ==
    /\ parsed' = Append(parsed, CloseDictToken)
    /\ stack # <<>>
    /\ stack[Len(stack)][1] = OpenDictToken

\* the values collected since the open-dict
Collected == Tail(stack[Len(stack)])

\* an even number of values, every key a name
NamedPairs ==
    /\ Len(Collected) % 2 = 0
    /\ \A k \in 1..(Len(Collected) \div 2) : Collected[2 * k - 1].type = "Name"

\* the last pair that has the key bs
LastPair(bs) ==
    CHOOSE k \in 1..(Len(Collected) \div 2) :
        /\ Collected[2 * k - 1].bs = bs
        /\ \A l \in (k + 1)..(Len(Collected) \div 2) : Collected[2 * l - 1].bs # bs

\* one entry per distinct key, with the value of its last pair
LastWins ==
    [bs \in {Collected[2 * k - 1].bs : k \in 1..(Len(Collected) \div 2)} |->
        Collected[2 * LastPair(bs)]]

DictOfPairs ==
    ClosesDict =>
        IF NamedPairs
        THEN /\ parse_exc' = "none"
             /\ IF Len(stack) = 1 THEN returned' = DictObject(LastWins)
                ELSE /\ returned' = NoObject
                     /\ Len(stack') = Len(stack) - 1
                     /\ stack'[Len(stack')] =
                            Append(stack[Len(stack) - 1], DictObject(LastWins))
        ELSE /\ parse_exc' # "none"
             /\ returned' = NoObject
             /\ stack' = SubSeq(stack, 1, Len(stack) - 1)

\* C39: at a close-dict token the values since the matching open-dict are
\* taken in pairs: with an odd number of values or a key that is no name the
\* parse fails and gives no dictionary; otherwise the dictionary has one
\* entry per distinct key, with the last value given for it
C39_DictOfPairs == [][DictOfPairs]_vars

\* << /Length 3 /Length 0 >> has given a dictionary of one entry
C39_Witness ==
    /\ parsed = RepeatDict
    /\ returned = DictObject(N_Length.bs :> Num_0)

====
